---- MODULE Spec2Model ----
(***************************************************************************)
(* Plan execution engine of the generation service.                        *)
(*                                                                         *)
(*   common/plan_service.py       validate_plan                            *)
(*   common/plan_orchestrator.py  generate_images_for_scene,               *)
(*                                execute_single_scene,                    *)
(*                                execute_parallel_scenes,                 *)
(*                                execute_sequential_scenes, execute_plan  *)
(*   common/routes.py             the plan-execution branch of the         *)
(*                                unified generation endpoint              *)
(*                                                                         *)
(* One behaviour is the handling of one plan-execution request: the route  *)
(* validates the plan, then execute_plan pre-generates reference images,   *)
(* runs the parallel groups on a thread pool, runs the sequential chains,  *)
(* runs the scenes that no group or chain names, and sorts the results.    *)
(***************************************************************************)
EXTENDS Integers, Sequences, FiniteSets, TLC

VARIABLES
    plan,                \* the VideoGenerationPlan of the request
    pc,                  \* position of the request / of execute_plan
    pre_idx,             \* execute_plan: index of the pre-generation loop
    img_idx,             \* generate_images_for_scene: index of the prompt loop
    img_busy,            \* an image-generation call is in flight
    generated_images,    \* generate_images_for_scene: images collected so far
    scene_images,        \* execute_plan: scene id -> pre-generated images
    unit_idx,            \* index of the group / chain being run
    futures,             \* execute_parallel_scenes: the submitted futures
    seq_scenes,          \* execute_sequential_scenes: its scenes argument
    seq_pos,             \* execute_sequential_scenes: loop position
    seq_running,         \* execute_sequential_scenes: a call is in progress
    previous_video_uri,  \* execute_sequential_scenes: last token
    results,             \* the running runner's local result list
    all_results,         \* execute_plan: collected results
    calls,               \* every execute_single_scene invocation, in start order
    image_calls,         \* number of image-generation calls made
    image_errors,        \* number of image-generation calls that raised
    returned,            \* the list execute_plan returned
    request,             \* generate_unified: the caller and the conversation_id
    detail,              \* generate_unified: the error the request ended with
    mutations,           \* generate_unified: the store writes made so far
    collections,         \* InMemoryMongo._collections
    lock,                \* InMemoryMongo._lock: its holder
    threads,             \* the store call each thread makes, and its position
    db0,                 \* the store contents before the threads' calls
    files,               \* assets/db/<collection>.json
    snapshot,            \* the store contents when dump_to_files was called
    persist_pc,          \* where the dump / restart / load sequence is
    usage_doc,           \* the usage fields of the stored user document
    usage0,              \* the usage fields before the calls
    usage_thr            \* increment_user_usage: each caller's position and locals

plan_vars == <<plan, pc, pre_idx, img_idx, img_busy, generated_images,
               scene_images, unit_idx, futures, seq_scenes, seq_pos,
               seq_running, previous_video_uri, results, all_results, calls,
               image_calls, image_errors, returned, request, detail, mutations>>

persist_vars == <<files, snapshot, persist_pc>>
store_vars == <<collections, lock, threads, db0, persist_vars>>

usage_vars == <<usage_doc, usage0, usage_thr>>

\* What a plan execution, a store call, a usage update leaves alone.
outside_plan == <<store_vars, usage_vars>>
outside_store == <<plan_vars, usage_vars>>
outside_usage == <<plan_vars, store_vars>>

vars == <<plan_vars, store_vars, usage_vars>>

(***************************************************************************)
(* Bounds of the model and constants of the program.                       *)
(***************************************************************************)
MaxEntries == 3
MaxParallelWorkers == 2
PLAN_MAX_SCENES == 10

\* None of Python; also the empty continuation token.
None == 0

\* The scene ids; scene i of a plan has id i.
SceneIds == {1, 2, 3}
MaxScenes == Cardinality(SceneIds)

\* VideoMode values execute_single_scene distinguishes.  frames_to_video and
\* references_to_video build the same request as text_to_video (the image
\* branches only log), so text_to_video stands for the three of them.
TEXT_TO_VIDEO == "text_to_video"
EXTEND_VIDEO == "extend_video"
Modes == {TEXT_TO_VIDEO, EXTEND_VIDEO}

(***************************************************************************)
(* Sequence helpers.                                                       *)
(***************************************************************************)
Range(s) == {s[i] : i \in 1..Len(s)}

RECURSIVE Flatten(_)
Flatten(ss) == IF ss = <<>> THEN <<>> ELSE Head(ss) \o Flatten(Tail(ss))

RECURSIVE SumLen(_)
SumLen(ss) == IF ss = <<>> THEN 0 ELSE Len(Head(ss)) + SumLen(Tail(ss))

(***************************************************************************)
(* The plans a request may carry.  Scene i of a plan has id i.  A scene is *)
(* a text_to_video scene without dependencies, a continuation scene that   *)
(* depends on the scene before it, or a continuation scene without         *)
(* dependencies (which validate_plan rejects).  The first scene of a plan  *)
(* shorter than MaxScenes may ask for pre-generated images.  The           *)
(* orchestration lists any non-empty groups and chains of scene ids,       *)
(* MaxEntries entries in all; an id may be listed more than once and may   *)
(* name no scene of the plan.                                              *)
(***************************************************************************)
ModeChoices(i) ==
    {<<TEXT_TO_VIDEO, {}>>, <<EXTEND_VIDEO, {}>>}
        \cup (IF i = 1 THEN {} ELSE {<<EXTEND_VIDEO, {i - 1}>>})

\* <<pre_generate_images, number of image_prompts (0: None or empty)>>
PreGenChoices(n, i) ==
    IF i = 1 /\ n < MaxScenes
    THEN {<<FALSE, 0>>, <<TRUE, 0>>, <<TRUE, 2>>}
    ELSE {<<FALSE, 0>>}

SceneChoices(n, i) ==
    {[id |-> i, mode |-> k[1], dependencies |-> k[2],
      pre_generate_images |-> g[1], image_prompts |-> g[2]] :
        k \in ModeChoices(i), g \in PreGenChoices(n, i)}

RECURSIVE ScenePrefixes(_, _)
ScenePrefixes(n, len) ==
    IF len = 0 THEN {<<>>}
    ELSE {Append(ss, sc) : ss \in ScenePrefixes(n, len - 1), sc \in SceneChoices(n, len)}

SceneLists(n) == ScenePrefixes(n, n)

\* Sequences of non-empty id lists holding total entries in all.
RECURSIVE IdLists(_)
IdLists(total) ==
    IF total = 0 THEN {<<>>}
    ELSE UNION {{<<h>> \o t : h \in [1..k -> SceneIds], t \in IdLists(total - k)} :
                k \in 1..total}

Orchestrations ==
    UNION {UNION {[parallel_groups : IdLists(a), sequential_chains : IdLists(b)] :
                  b \in 0..(MaxEntries - a)} : a \in 0..MaxEntries}

Plans ==
    {[scenes |-> ss, orchestration |-> o] :
        ss \in UNION {SceneLists(n) : n \in 1..MaxScenes},
        o \in Orchestrations}

(***************************************************************************)
(* validate_plan: "ok", or the first violated check.                       *)
(***************************************************************************)
scene_ids(p) == [i \in 1..Len(p.scenes) |-> p.scenes[i].id]

\* A validator that looks at the dependencies before the ids.
validate_plan_dependencies_first(p) ==
    LET ids == scene_ids(p)
    IN  IF Len(p.scenes) = 0 THEN "no_scenes"
        ELSE IF \E i \in 1..Len(p.scenes) :
                    \E d \in p.scenes[i].dependencies : d \notin Range(ids)
             THEN "missing_dependency"
        ELSE IF Len(ids) # Cardinality(Range(ids)) THEN "duplicate_ids"
        ELSE IF \E i \in 1..Len(p.scenes) :
                    /\ p.scenes[i].mode = EXTEND_VIDEO
                    /\ p.scenes[i].dependencies = {}
             THEN "extend_without_dependencies"
        ELSE IF \E u \in Range(p.orchestration.parallel_groups)
                            \cup Range(p.orchestration.sequential_chains) :
                    \E k \in 1..Len(u) : u[k] \notin Range(ids)
             THEN "missing_orchestration_scene"
        ELSE "ok"

\* A validator without the check of the continuation scenes.
validate_plan_any_mode(p) ==
    LET ids == scene_ids(p)
    IN  IF Len(p.scenes) = 0 THEN "no_scenes"
        ELSE IF Len(ids) # Cardinality(Range(ids)) THEN "duplicate_ids"
        ELSE IF \E i \in 1..Len(p.scenes) :
                    \E d \in p.scenes[i].dependencies : d \notin Range(ids)
             THEN "missing_dependency"
        ELSE IF \E u \in Range(p.orchestration.parallel_groups)
                            \cup Range(p.orchestration.sequential_chains) :
                    \E k \in 1..Len(u) : u[k] \notin Range(ids)
             THEN "missing_orchestration_scene"
        ELSE "ok"

validate_plan(p) ==
    LET ids == scene_ids(p)
        orch == Flatten(p.orchestration.parallel_groups)
                    \o Flatten(p.orchestration.sequential_chains)
    IN  IF Len(p.scenes) = 0 THEN "no_scenes"
        ELSE IF Len(ids) # Cardinality(Range(ids)) THEN "duplicate_ids"
        ELSE IF \E i \in 1..Len(p.scenes) :
                    \E d \in p.scenes[i].dependencies : d \notin Range(ids)
             THEN "missing_dependency"
        ELSE IF \E i \in 1..Len(p.scenes) :
                    /\ p.scenes[i].mode = EXTEND_VIDEO
                    /\ p.scenes[i].dependencies = {}
             THEN "extend_without_dependencies"
        ELSE IF \E j \in 1..Len(orch) : orch[j] \notin Range(ids)
             THEN "missing_orchestration_scene"
        ELSE "ok"

(***************************************************************************)
(* The external calls.  generate_video returns a response that carries a   *)
(* video URI and no usage metadata, or raises (videos/services.py raises   *)
(* when the generated video has no URI and sets usage_metadata = None).    *)
(* call_gemini_generate_stream_and_save returns assets, returns none, or   *)
(* raises.                                                                 *)
(***************************************************************************)
GenerateVideoResponses ==
    {[raised |-> FALSE, video_uri |-> TRUE, usage_metadata |-> FALSE],
     [raised |-> TRUE, video_uri |-> FALSE, usage_metadata |-> FALSE]}

NotCalled == [raised |-> FALSE, video_uri |-> FALSE, usage_metadata |-> FALSE]

ImageResponses == {"assets", "no_assets", "raised"}

(***************************************************************************)
(* execute_single_scene.  An invocation either returns a SceneResult or    *)
(* lets an exception escape: exc says which.  The new continuation token   *)
(* is the number of the invocation that produced it.                       *)
(***************************************************************************)
SceneResult(scene_id, success, video_uri, images, error, cost) ==
    [scene_id |-> scene_id, success |-> success, video_url |-> success,
     video_uri |-> video_uri, generated_images |-> images, error |-> error,
     cost |-> cost]

\* No SceneResult: the invocation has not returned one.
NoResult == SceneResult(None, FALSE, None, -1, FALSE, "none")

\* An execute_single_scene that sends every scene to the backend.
CallsBackendAlways(scene, token) == TRUE

\* A continuation-mode scene without a token fails before the backend call.
CallsBackend(scene, token) ==
    ~(scene.mode = EXTEND_VIDEO /\ token = None)

\* execute_single_scene with the backend call outside the try block.
execute_single_scene_unguarded(scene, token, images, resp, call_id) ==
    IF resp.raised
    THEN [exc |-> TRUE, result |-> NoResult]
    ELSE IF ~CallsBackend(scene, token) \/ resp.usage_metadata
    THEN [exc |-> FALSE,
          result |-> SceneResult(scene.id, FALSE, None, images, TRUE, "none")]
    ELSE [exc |-> FALSE,
          result |-> SceneResult(scene.id, TRUE,
                                 IF resp.video_uri THEN call_id ELSE None,
                                 images, FALSE, "fixed")]

execute_single_scene(scene, token, images, resp, call_id) ==
    IF ~CallsBackend(scene, token) \/ resp.raised \/ resp.usage_metadata
    THEN \* ValueError of the mode check, an exception of generate_video, or
         \* one of the token-based cost computation: all inside the try.
         [exc |-> FALSE,
          result |-> SceneResult(scene.id, FALSE, None, images, TRUE, "none")]
    ELSE [exc |-> FALSE,
          result |-> SceneResult(scene.id, TRUE,
                                 IF resp.video_uri THEN call_id ELSE None,
                                 images, FALSE, "fixed")]

\* scene_lookup of execute_plan: the last scene of the plan with this id.
scene_lookup(p, id) ==
    LET idx == {i \in 1..Len(p.scenes) : p.scenes[i].id = id}
    IN  p.scenes[CHOOSE i \in idx : \A j \in idx : j <= i]

InLookup(p, id) == \E i \in 1..Len(p.scenes) : p.scenes[i].id = id

\* [scene_lookup[scene_id] for scene_id in unit if scene_id in scene_lookup]
RECURSIVE UnitScenes(_, _)
UnitScenes(p, unit) ==
    IF unit = <<>> THEN <<>>
    ELSE (IF InLookup(p, Head(unit)) THEN <<scene_lookup(p, Head(unit))>> ELSE <<>>)
             \o UnitScenes(p, Tail(unit))

\* scene_images.get(scene.id, [])
ImagesFor(imgs, id) == imgs[id]

\* The record of one execute_single_scene invocation: its arguments, whether
\* it calls the backend, and, once it has returned, what the backend did
\* and what the invocation gave back.
Call(scene, token, images, stage, unit) ==
    [scene_id |-> scene.id, mode |-> scene.mode, token |-> token,
     images |-> images, stage |-> stage, unit |-> unit,
     backend |-> CallsBackend(scene, token), status |-> "running",
     backend_raised |-> FALSE, exc |-> FALSE, result |-> NoResult]

Finished(call, resp, out) ==
    [call EXCEPT !.status = "returned", !.backend_raised = resp.raised,
                 !.exc = out.exc, !.result = out.result]

(***************************************************************************)
(* execute_plan between two blocking calls.                                *)
(*                                                                         *)
(* Dispatch finds what execute_plan runs next, from group or chain idx on: *)
(* the next group with a scene (step 3), else the next chain with a scene  *)
(* (step 4), else the scenes no group or chain names (step 5), else the    *)
(* final sort ("sort": straight to the final sort).                        *)
(***************************************************************************)
orchestrated_scene_ids(p) ==
    Range(Flatten(p.orchestration.parallel_groups))
        \cup Range(Flatten(p.orchestration.sequential_chains))

unorchestrated_scenes(p) ==
    SelectSeq(p.scenes, LAMBDA sc : sc.id \notin orchestrated_scene_ids(p))

RECURSIVE Dispatch(_, _, _)
Dispatch(p, stage, idx) ==
    IF stage = "groups"
    THEN IF idx > Len(p.orchestration.parallel_groups)
         THEN Dispatch(p, "chains", 1)
         ELSE LET group_scenes == UnitScenes(p, p.orchestration.parallel_groups[idx])
              IN  IF group_scenes = <<>>
                  THEN Dispatch(p, "groups", idx + 1)
                  ELSE [pc |-> "in_group", unit |-> idx, scenes |-> group_scenes]
    ELSE IF stage = "chains"
    THEN IF idx > Len(p.orchestration.sequential_chains)
         THEN Dispatch(p, "fallback", 0)
         ELSE LET chain_scenes == UnitScenes(p, p.orchestration.sequential_chains[idx])
              IN  IF chain_scenes = <<>>
                  THEN Dispatch(p, "chains", idx + 1)
                  ELSE [pc |-> "in_chain", unit |-> idx, scenes |-> chain_scenes]
    ELSE IF stage = "fallback" /\ unorchestrated_scenes(p) # <<>>
         THEN [pc |-> "in_fallback", unit |-> 0, scenes |-> unorchestrated_scenes(p)]
         ELSE [pc |-> "done", unit |-> 0, scenes |-> <<>>]

\* The final stable sort by the scene's position in the plan (999 for an
\* id the plan does not hold).
MISSING_ORDER == 999

scene_order(p, id) ==
    IF InLookup(p, id)
    THEN CHOOSE i \in 1..Len(p.scenes) :
            /\ p.scenes[i].id = id
            /\ \A j \in 1..Len(p.scenes) : p.scenes[j].id = id => j <= i
    ELSE MISSING_ORDER

RECURSIVE SortFrom(_, _, _)
SortFrom(p, rs, k) ==
    IF k > Len(p.scenes)
    THEN SelectSeq(rs, LAMBDA r : scene_order(p, r.scene_id) = MISSING_ORDER)
    ELSE SelectSeq(rs, LAMBDA r : scene_order(p, r.scene_id) = k)
             \o SortFrom(p, rs, k + 1)

SortResults(p, rs) == SortFrom(p, rs, 1)

\* A runner that starts with the token the last runner ended with.
RunnerTokenCarried(prev) == prev

\* The token a runner starts with: previous_video_uri = None.
RunnerToken(prev) == None

\* execute_plan goes on from `stage`, group or chain idx, having collected all.
Proceed(stage, idx, all) ==
    LET d == Dispatch(plan, stage, idx) IN
    /\ pc' = d.pc
    /\ unit_idx' = d.unit
    /\ futures' = IF d.pc = "in_group"
                  THEN [i \in 1..Len(d.scenes) |->
                           [scene |-> d.scenes[i], status |-> "queued", call |-> 0]]
                  ELSE <<>>
    /\ seq_scenes' = IF d.pc \in {"in_chain", "in_fallback"} THEN d.scenes ELSE <<>>
    /\ seq_pos' = IF d.pc \in {"in_chain", "in_fallback"} THEN 1 ELSE 0
    /\ previous_video_uri' = RunnerToken(previous_video_uri)
    /\ results' = <<>>
    /\ all_results' = all
    /\ returned' = IF d.pc = "done" THEN SortResults(plan, all) ELSE <<>>

(***************************************************************************)
(* database/db.py: InMemoryMongo.                                          *)
(*                                                                         *)
(* A collection is a Python dict, which keeps insertion order: a sequence  *)
(* of entries [key, doc].  A document has the fields id, owner_id and v    *)
(* (any other top-level field).  NoId is a document passed without an id   *)
(* key; NoOwner is owner_id=None of a call.                                *)
(***************************************************************************)
CollNames == {"users", "assets"}
Owners == {"A", "B"}
NoId == "no id"
NoOwner == "None"
DocIds == {"d1", "d2"}

\* A value json.dump cannot write as it is (it goes through default=str),
\* and the text str() gives for it.
DATETIME == "datetime(2020, 1, 1)"
DATETIME_STR == "2020-01-01 00:00:00"
FieldValues == {"x", "y", DATETIME}

Doc(id, owner_id, v) == [id |-> id, owner_id |-> owner_id, v |-> v]
NoDoc == Doc(NoId, NoOwner, "")

NoCollection == [exists |-> FALSE, items |-> <<>>]
EmptyStore == [c \in CollNames |-> NoCollection]

\* _ensure_collection
ensure_collection(st, name) ==
    IF st[name].exists THEN st
    ELSE [st EXCEPT ![name] = [exists |-> TRUE, items |-> <<>>]]

\* d[key] = doc on a dict: in place if the key is there, else at the end.
DictSet(items, key, doc) ==
    IF \E i \in 1..Len(items) : items[i].key = key
    THEN [i \in 1..Len(items) |->
             IF items[i].key = key THEN [key |-> key, doc |-> doc] ELSE items[i]]
    ELSE Append(items, [key |-> key, doc |-> doc])

DictPop(items, key) == SelectSeq(items, LAMBDA e : e.key # key)

HasKey(items, key) == \E i \in 1..Len(items) : items[i].key = key

\* A filter: None, or a dict with some of the keys id and v.
Filter(keys, id, v) == [none |-> FALSE, keys |-> keys, id |-> id, v |-> v]
NoneFilter == [none |-> TRUE, keys |-> {}, id |-> NoId, v |-> ""]
EmptyFilter == Filter({}, NoId, "")

\* The equality match of find, update_one and delete_one over filter.items().
FilterMatch(doc, filter) ==
    /\ ("id" \in filter.keys => doc.id = filter.id)
    /\ ("v" \in filter.keys => doc.v = filter.v)

\* A store without the owner check.
OwnerSkipNever(doc, owner_id) == FALSE

\* The owner check of find, update_one and delete_one.
OwnerSkip(doc, owner_id) == owner_id # NoOwner /\ doc.owner_id # owner_id

\* The patches that set the id field, {"id": "d1"} and {"id": "d2"}; every
\* other patch sets v to the value that names it.
IdPatches == {"id=d1", "id=d2"}
PatchId(patch) == IF patch = "id=d1" THEN "d1" ELSE "d2"

\* doc.update(patch).
Patched(doc, patch) ==
    IF patch \in IdPatches THEN [doc EXCEPT !.id = PatchId(patch)]
    ELSE [doc EXCEPT !.v = patch]

\* Return values and exceptions of the store calls.
RetDocs(docs) == [kind |-> "docs", docs |-> docs]
RetNone == [kind |-> "None", docs |-> <<>>]
\* update_one / delete_one without "except KeyError: raise".
KeyErrorWrapped == [kind |-> "RuntimeError", docs |-> <<>>]

RaisedKeyError == [kind |-> "KeyError", docs |-> <<>>]
RaisedRuntimeError == [kind |-> "RuntimeError", docs |-> <<>>]
NoRet == [kind |-> "pending", docs |-> <<>>]

\* insert_one, after _ensure_collection; uuid is what uuid4() gives.
insert_one(st, coll, document, uuid) ==
    LET doc == IF document.id = NoId THEN [document EXCEPT !.id = uuid] ELSE document
    IN  [store |-> [st EXCEPT ![coll].items = DictSet(@, doc.id, doc)],
         ret |-> RetDocs(<<doc>>)]

\* find, after _ensure_collection (a None filter and {} are both "not filter").
find(st, coll, filter, owner_id) ==
    LET kept == SelectSeq(st[coll].items,
                    LAMBDA e : /\ ~OwnerSkip(e.doc, owner_id)
                               /\ (filter.none \/ filter.keys = {}
                                       \/ FilterMatch(e.doc, filter)))
    IN  RetDocs([i \in 1..Len(kept) |-> kept[i].doc])

find_one(st, coll, filter, owner_id) ==
    LET res == find(st, coll, filter, owner_id)
    IN  IF res.docs # <<>> THEN RetDocs(<<res.docs[1]>>) ELSE RetNone

\* The loop of update_one and delete_one: the position of the first entry
\* the owner check keeps and the filter matches (0: none); filter.items() of
\* a None filter raises at the first entry the owner check keeps.
InOwnerScope(items, owner_id) ==
    {i \in 1..Len(items) : ~OwnerSkip(items[i].doc, owner_id)}

FirstOf(S) == IF S = {} THEN 0 ELSE CHOOSE i \in S : \A j \in S : i <= j

\* A loop that keeps the last match instead of stopping at the first.
LastMatch(items, filter, owner_id) ==
    LET S == {i \in InOwnerScope(items, owner_id) : FilterMatch(items[i].doc, filter)}
    IN  IF S = {} THEN 0 ELSE CHOOSE i \in S : \A j \in S : j <= i

FirstMatch(items, filter, owner_id) ==
    FirstOf({i \in InOwnerScope(items, owner_id) : FilterMatch(items[i].doc, filter)})

NoHit == [key |-> NoId, doc |-> NoDoc]

\* update_one, after _ensure_collection.
update_one(st, coll, filter, patch, owner_id) ==
    LET items == st[coll].items
        hit == FirstMatch(items, filter, owner_id)
    IN  IF InOwnerScope(items, owner_id) = {} THEN [store |-> st, ret |-> RaisedKeyError]
        ELSE IF filter.none THEN [store |-> st, ret |-> RaisedRuntimeError]
        ELSE IF hit = 0 THEN [store |-> st, ret |-> RaisedKeyError]
        ELSE [store |-> [st EXCEPT ![coll].items =
                            DictSet(@, items[hit].key, Patched(items[hit].doc, patch))],
              ret |-> RetDocs(<<Patched(items[hit].doc, patch)>>)]

\* delete_one, after _ensure_collection.
delete_one(st, coll, filter, owner_id) ==
    LET items == st[coll].items
        hit == FirstMatch(items, filter, owner_id)
    IN  IF InOwnerScope(items, owner_id) = {} THEN [store |-> st, ret |-> RaisedKeyError]
        ELSE IF filter.none THEN [store |-> st, ret |-> RaisedRuntimeError]
        ELSE IF hit = 0 THEN [store |-> st, ret |-> RaisedKeyError]
        ELSE [store |-> [st EXCEPT ![coll].items = DictPop(@, items[hit].key)],
              ret |-> RetDocs(<<items[hit].doc>>)]

\* The lock is free.
Unlocked == "unlocked"

\* assets/db holds no file.
NoFile == [exists |-> FALSE, parsable |-> TRUE, docs |-> <<>>]
NoFiles == [c \in CollNames |-> NoFile]

(***************************************************************************)
(* common/routes.py: what generate_unified looks at before the plan.       *)
(*                                                                         *)
(* is_guest and guest_quota are fields of the current user; usage_left     *)
(* says whether usage_today_count is below daily_limit; conversation is    *)
(* "None" (no conversation_id in the request), "own" (the id of a          *)
(* conversation of the user) or "unknown" (get_conversation raises         *)
(* KeyError).                                                              *)
(***************************************************************************)
Request(is_guest, guest_quota, usage_left, conversation) ==
    [is_guest |-> is_guest, guest_quota |-> guest_quota,
     usage_left |-> usage_left, conversation |-> conversation]

\* A registered user with usage left, in a conversation of theirs.
MemberRequest == Request(FALSE, 0, TRUE, "own")

\* The request has not ended with an error.
NoError == "none"

\* No store call is running.
StoreIdle ==
    /\ collections = EmptyStore
    /\ lock = Unlocked
    /\ threads = <<>>
    /\ db0 = EmptyStore
    /\ files = NoFiles
    /\ snapshot = EmptyStore
    /\ persist_pc = "idle"

(***************************************************************************)
(* utils/usage.py: the usage fields of a user document.                    *)
(***************************************************************************)
TODAY == "today"
YESTERDAY == "yesterday"

UsageFields(date, count, limit) ==
    [usage_today_date |-> date, usage_today_count |-> count, daily_limit |-> limit]

NoUsage == UsageFields("", 0, 0)

\* No usage update is running.
UsageIdle ==
    /\ usage_doc = NoUsage
    /\ usage0 = NoUsage
    /\ usage_thr = <<>>

(***************************************************************************)
(* Initial state: a request carrying any plan of the family.               *)
(***************************************************************************)
Init ==
    /\ plan \in Plans
    /\ pc = "request"
    /\ pre_idx = 0
    /\ img_idx = 0
    /\ img_busy = FALSE
    /\ generated_images = 0
    /\ scene_images = [id \in SceneIds |-> 0]
    /\ unit_idx = 0
    /\ futures = <<>>
    /\ seq_scenes = <<>>
    /\ seq_pos = 0
    /\ seq_running = FALSE
    /\ previous_video_uri = None
    /\ results = <<>>
    /\ all_results = <<>>
    /\ calls = <<>>
    /\ image_calls = 0
    /\ image_errors = 0
    /\ returned = <<>>
    /\ request = MemberRequest
    /\ detail = NoError
    /\ mutations = <<>>
    /\ StoreIdle
    /\ UsageIdle

(***************************************************************************)
(* The route: validate_plan, then the scene limit, then execute_plan.      *)
(***************************************************************************)
Validate ==
    /\ pc = "request"
    /\ UNCHANGED outside_plan
    /\ detail' = IF validate_plan(plan) # "ok" THEN validate_plan(plan)
                 ELSE IF Len(plan.scenes) > PLAN_MAX_SCENES THEN "too_many_scenes"
                 ELSE NoError
    /\ pc' = IF detail' # NoError THEN "rejected" ELSE "pregen"
    /\ pre_idx' = 1
    /\ UNCHANGED <<plan, request, mutations, img_idx, img_busy, generated_images, scene_images,
                   unit_idx, futures, seq_scenes, seq_pos, seq_running,
                   previous_video_uri, results, all_results, calls,
                   image_calls, image_errors, returned>>

(***************************************************************************)
(* execute_plan, step 1: the pre-generation loop over plan.scenes, and     *)
(* generate_images_for_scene's loop over the scene's image prompts.        *)
(***************************************************************************)
PreGenNext ==
    /\ pc = "pregen"
    /\ UNCHANGED outside_plan
    /\ img_idx = 0
    /\ generated_images' = 0
    /\ IF pre_idx > Len(plan.scenes)
       THEN /\ Proceed("groups", 1, <<>>)
            /\ UNCHANGED <<pre_idx, img_idx, scene_images>>
       ELSE LET scene == plan.scenes[pre_idx] IN
            /\ UNCHANGED <<pc, unit_idx, futures, seq_scenes, seq_pos,
                           previous_video_uri, results, all_results, returned>>
            /\ IF ~scene.pre_generate_images
               THEN /\ pre_idx' = pre_idx + 1
                    /\ UNCHANGED <<img_idx, scene_images>>
               ELSE IF scene.image_prompts = 0
               THEN /\ scene_images' = [scene_images EXCEPT ![scene.id] = 0]
                    /\ pre_idx' = pre_idx + 1
                    /\ UNCHANGED img_idx
               ELSE /\ img_idx' = 1
                    /\ UNCHANGED <<pre_idx, scene_images>>
    /\ UNCHANGED <<plan, request, detail, mutations, img_busy, seq_running, calls, image_calls, image_errors>>

\* A loop that asks for the next image while a call is still in progress.
ImageLoopOverlaps(busy) == TRUE

\* The loops call call_gemini_generate_stream_and_save and wait for it.
ImageLoopWaits(busy) == ~busy

ImageCall ==
    /\ pc = "pregen"
    /\ UNCHANGED outside_plan
    /\ img_idx >= 1
    /\ ImageLoopWaits(img_busy)
    /\ img_busy' = TRUE
    /\ image_calls' = image_calls + 1
    /\ UNCHANGED <<plan, request, detail, mutations, image_errors, pc, pre_idx, img_idx, generated_images, scene_images,
                   unit_idx, futures, seq_scenes, seq_pos, seq_running,
                   previous_video_uri, results, all_results, calls, returned>>

\* Loops without their try blocks: an image call that raises ends execute_plan.
ImageErrorEscapes(r) == r = "raised"

\* The except branch of generate_images_for_scene's loop (and the one around
\* it in execute_plan) catches what an image call raises.
ImageErrorLeaves(r) == FALSE

ImageReturn(r) ==
    /\ pc = "pregen"
    /\ UNCHANGED outside_plan
    /\ img_busy
    /\ img_busy' = FALSE
    /\ image_errors' = image_errors + (IF r = "raised" THEN 1 ELSE 0)
    /\ LET scene == plan.scenes[pre_idx]
           images == generated_images + (IF r = "assets" THEN 1 ELSE 0)
       IN  IF ImageErrorLeaves(r)
           THEN /\ pc' = "raised"
                /\ UNCHANGED <<generated_images, img_idx, pre_idx, scene_images>>
           ELSE /\ pc' = pc
                /\ generated_images' = images
                /\ IF img_idx < scene.image_prompts
                   THEN /\ img_idx' = img_idx + 1
                        /\ UNCHANGED <<pre_idx, scene_images>>
                   ELSE /\ img_idx' = 0
                        /\ pre_idx' = pre_idx + 1
                        /\ scene_images' = [scene_images EXCEPT ![scene.id] = images]
    /\ UNCHANGED <<plan, request, detail, mutations, unit_idx, futures, seq_scenes, seq_pos,
                   seq_running, previous_video_uri, results, all_results,
                   calls, image_calls, returned>>

(***************************************************************************)
(* execute_parallel_scenes: every scene of the group is submitted to a     *)
(* pool of max_parallel_workers threads, which serves its queue in         *)
(* submission order; each result is appended as its future completes, and  *)
(* the function returns when every future has completed.                   *)
(***************************************************************************)
max_parallel_workers == MaxParallelWorkers

Running(fs) == {i \in 1..Len(fs) : fs[i].status = "running"}
Queued(fs) == {i \in 1..Len(fs) : fs[i].status = "queued"}

\* A pool that starts a thread for every submitted call.
PoolUnbounded(fs) == TRUE

\* ThreadPoolExecutor(max_workers): a queued call starts when a worker is idle.
PoolHasIdleWorker(fs) == Cardinality(Running(fs)) < max_parallel_workers

\* Returning with the first completed future.
FirstCompleted(fs, f) == TRUE

\* Leaving the with block waits for every submitted future; f completes now.
AllCompleted(fs, f) == \A i \in 1..Len(fs) : i # f => fs[i].status = "done"

\* What the as_completed loop appends for a future: its result, or a failed
\* SceneResult (without images) when future.result() raises.
FutureResult(out, scene) ==
    IF out.exc
    THEN SceneResult(scene.id, FALSE, None, -1, TRUE, "none")
    ELSE out.result

\* An as_completed loop that keeps successful results only.
CollectSuccessOnly(rs, out, scene) ==
    IF FutureResult(out, scene).success THEN Append(rs, FutureResult(out, scene)) ELSE rs

\* One pass of the as_completed loop.
CollectResult(rs, out, scene) == Append(rs, FutureResult(out, scene))

Responses(call) == IF call.backend THEN GenerateVideoResponses ELSE {NotCalled}

\* A group that hands a scene the newest token its earlier calls produced.
GroupTokenFromEarlierCall(cs) ==
    LET made == {i \in 1..Len(cs) : cs[i].status = "returned"
                                        /\ cs[i].result.video_uri # None}
    IN  IF made = {} THEN None
        ELSE cs[CHOOSE i \in made : \A j \in made : j <= i].result.video_uri

\* executor.submit(execute_single_scene, scene, owner_id, None, ...)
GroupToken(cs) == None

WorkerStart ==
    /\ pc = "in_group"
    /\ UNCHANGED outside_plan
    /\ Queued(futures) # {}
    /\ PoolHasIdleWorker(futures)
    /\ LET f == CHOOSE i \in Queued(futures) : \A j \in Queued(futures) : i <= j
       IN  /\ futures' = [futures EXCEPT ![f].status = "running",
                                         ![f].call = Len(calls) + 1]
           /\ calls' = Append(calls, Call(futures[f].scene, GroupToken(calls),
                                          ImagesFor(scene_images, futures[f].scene.id),
                                          "group", unit_idx))
    /\ UNCHANGED <<plan, request, detail, mutations, pc, pre_idx, img_idx, img_busy, generated_images,
                   scene_images, unit_idx, seq_scenes, seq_pos, seq_running,
                   previous_video_uri, results, all_results, image_calls, image_errors,
                   returned>>

ParallelReturn(f, resp) ==
    /\ pc = "in_group"
    /\ UNCHANGED outside_plan
    /\ f \in Running(futures)
    /\ resp \in Responses(calls[futures[f].call])
    /\ LET scene == futures[f].scene
           out == execute_single_scene(scene, calls[futures[f].call].token,
                                       ImagesFor(scene_images, scene.id),
                                       resp, futures[f].call)
           group_results == CollectResult(results, out, scene)
       IN  /\ calls' = [calls EXCEPT ![futures[f].call] = Finished(@, resp, out)]
           /\ IF AllCompleted(futures, f)
              THEN Proceed("groups", unit_idx + 1, all_results \o group_results)
              ELSE /\ results' = group_results
                   /\ futures' = [futures EXCEPT ![f].status = "done"]
                   /\ UNCHANGED <<pc, unit_idx, seq_scenes, seq_pos,
                                  previous_video_uri, all_results, returned>>
    /\ UNCHANGED <<plan, request, detail, mutations, pre_idx, img_idx, img_busy, generated_images,
                   scene_images, seq_running, image_calls, image_errors>>

(***************************************************************************)
(* execute_sequential_scenes, for a chain (step 4) and for the scenes no   *)
(* group or chain names (step 5).                                          *)
(***************************************************************************)
\* A loop that does not wait for the call it made.
StartWithoutWaiting(running) == TRUE

\* A loop that stops at the first failed scene.
LoopEndsOnFailure(pos, scenes, result) == pos = Len(scenes) \/ ~result.success

\* The loop calls execute_single_scene and waits for it: the next scene
\* starts when no call of the loop is in progress.
MayStartNext(running) == ~running

\* The loop ends after its last scene, whatever the results.
LoopEnds(pos, scenes, result) == pos = Len(scenes)

SeqStart ==
    /\ pc \in {"in_chain", "in_fallback"}
    /\ UNCHANGED outside_plan
    /\ MayStartNext(seq_running)
    /\ seq_running' = TRUE
    /\ calls' = Append(calls, Call(seq_scenes[seq_pos], previous_video_uri,
                                   ImagesFor(scene_images, seq_scenes[seq_pos].id),
                                   IF pc = "in_chain" THEN "chain" ELSE "fallback",
                                   unit_idx))
    /\ UNCHANGED <<plan, request, detail, mutations, pc, pre_idx, img_idx, img_busy, generated_images,
                   scene_images, unit_idx, futures, seq_scenes, seq_pos,
                   previous_video_uri, results, all_results, image_calls, image_errors,
                   returned>>

\* A loop that carries the token of the last scene, failed or not.
NextTokenOfLastScene(prev, result) == result.video_uri

\* The token the loop carries to the next scene.
NextToken(prev, result) ==
    IF result.success
    THEN (IF result.video_uri # None THEN result.video_uri ELSE prev)
    ELSE prev

SeqReturn(resp) ==
    /\ pc \in {"in_chain", "in_fallback"}
    /\ UNCHANGED outside_plan
    /\ seq_running
    /\ resp \in Responses(calls[Len(calls)])
    /\ seq_running' = FALSE
    /\ LET scene == seq_scenes[seq_pos]
           out == execute_single_scene(scene, previous_video_uri,
                                       ImagesFor(scene_images, scene.id), resp,
                                       Len(calls))
       IN  /\ calls' = [calls EXCEPT ![Len(calls)] = Finished(@, resp, out)]
           /\ IF out.exc
              THEN \* the exception leaves execute_sequential_scenes and execute_plan
                   /\ pc' = "raised"
                   /\ UNCHANGED <<unit_idx, futures, seq_scenes, seq_pos,
                                  previous_video_uri, results, all_results, returned>>
              ELSE IF LoopEnds(seq_pos, seq_scenes, out.result)
              THEN IF pc = "in_chain"
                   THEN Proceed("chains", unit_idx + 1,
                                all_results \o Append(results, out.result))
                   ELSE Proceed("sort", 0, all_results \o Append(results, out.result))
              ELSE /\ results' = Append(results, out.result)
                   /\ previous_video_uri' = NextToken(previous_video_uri, out.result)
                   /\ seq_pos' = seq_pos + 1
                   /\ UNCHANGED <<pc, unit_idx, futures, seq_scenes, all_results,
                                  returned>>
    /\ UNCHANGED <<plan, request, detail, mutations, pre_idx, img_idx, img_busy, generated_images,
                   scene_images, image_calls, image_errors>>

Next ==
    \/ Validate
    \/ PreGenNext
    \/ ImageCall
    \/ \E r \in ImageResponses : ImageReturn(r)
    \/ WorkerStart
    \/ \E f \in 1..Len(futures) : \E resp \in GenerateVideoResponses \cup {NotCalled} :
          ParallelReturn(f, resp)
    \/ SeqStart
    \/ \E resp \in GenerateVideoResponses \cup {NotCalled} : SeqReturn(resp)

Spec == Init /\ [][Next]_vars

\* execute_plan under fair scheduling: a step that can be taken (a call of
\* the backend returning or raising, a worker picking up a queued call, the
\* main thread going on) is eventually taken.
FairSpec == Spec /\ WF_vars(Next)

(***************************************************************************)
(* Properties.                                                             *)
(***************************************************************************)
CallIds == 1..Len(calls)
Returned(i) == calls[i].status = "returned"
SceneOfId(id) == scene_lookup(plan, id)
ResultIds(rs) == [i \in 1..Len(rs) |-> rs[i].scene_id]
CountOf(seq, x) == Cardinality({i \in 1..Len(seq) : seq[i] = x})

\* The invocations execute_plan makes for a plan: one per group entry, one
\* per chain entry, one per scene no group or chain names.
Scheduled(p) ==
    SumLen(p.orchestration.parallel_groups) + SumLen(p.orchestration.sequential_chains)
        + Len(unorchestrated_scenes(p))

\* C1: when execute_plan has returned for a plan validate_plan accepted, the
\* returned list has exactly len(plan.scenes) results and every scene id of
\* the plan is the scene_id of exactly one of them.
C1_OneResultPerScene ==
    pc = "done" =>
        /\ Len(returned) = Len(plan.scenes)
        /\ \A i \in 1..Len(plan.scenes) :
              CountOf(ResultIds(returned), plan.scenes[i].id) = 1

\* C2: when execute_plan has returned, the scene ids of the returned list,
\* in order, are the scene ids of plan.scenes, in order.
C2_ResultOrder ==
    pc = "done" => ResultIds(returned) = scene_ids(plan)

\* C3: the invocations made for a sequential chain are, in order, the scenes
\* of the chain; each gets the token of the nearest earlier invocation of
\* that chain that succeeded and produced a token, or no token if there is
\* none; when execute_plan has returned every scene of the chain was invoked.
ChainCalls(u) ==
    SelectSeq(calls, LAMBDA c : c.stage = "chain" /\ c.unit = u)

LastGoodToken(cs, k) ==
    LET good == {j \in 1..(k - 1) :
                    /\ cs[j].status = "returned"
                    /\ cs[j].result.success
                    /\ cs[j].result.video_uri # None}
    IN  IF good = {} THEN None
        ELSE cs[CHOOSE j \in good : \A m \in good : m <= j].result.video_uri

C3_ChainThreadsLastGoodToken ==
    \A u \in 1..Len(plan.orchestration.sequential_chains) :
        LET chain == plan.orchestration.sequential_chains[u]
            cs == ChainCalls(u)
        IN  /\ Len(cs) <= Len(chain)
            /\ \A k \in 1..Len(cs) :
                  /\ cs[k].scene_id = chain[k]
                  /\ cs[k].token = LastGoodToken(cs, k)
            /\ (pc = "done" => Len(cs) = Len(chain))

\* C3 witness: a chain of three scenes in which the first succeeded with a
\* token, the second failed, and the third was invoked with the first's token.
C3_Witness ==
    \E u \in 1..Len(plan.orchestration.sequential_chains) :
        LET cs == ChainCalls(u)
        IN  /\ Len(cs) = 3
            /\ cs[1].result.success /\ cs[1].result.video_uri # None
            /\ cs[2].status = "returned" /\ ~cs[2].result.success
            /\ cs[3].token = cs[1].result.video_uri

\* C4: every invocation with a non-empty continuation token got the token
\* from an invocation that had returned and whose scene the invoked scene
\* lists in its dependencies.
C4_TokenFromDependency ==
    \A i \in CallIds :
        calls[i].token # None =>
            /\ calls[i].token \in CallIds
            /\ Returned(calls[i].token)
            /\ calls[calls[i].token].scene_id \in SceneOfId(calls[i].scene_id).dependencies

\* C5: execute_parallel_scenes gives back exactly one result per submitted
\* scene, and each result is decided by that scene's own call alone: it is
\* a success exactly when the scene's backend call was made and returned.
GroupCalls(u) ==
    SelectSeq(calls, LAMBDA c : c.stage = "group" /\ c.unit = u)

GroupFinished(u) ==
    \/ pc = "in_group" /\ unit_idx > u
    \/ pc \in {"in_chain", "in_fallback", "done"}

RECURSIVE GroupOffset(_)
GroupOffset(u) ==
    IF u = 1 THEN 0
    ELSE GroupOffset(u - 1) + Len(plan.orchestration.parallel_groups[u - 1])

\* The results execute_parallel_scenes returned for group u.
GroupResults(u) ==
    LET last == GroupOffset(u) + Len(plan.orchestration.parallel_groups[u])
    IN  SubSeq(all_results, GroupOffset(u) + 1,
               IF last <= Len(all_results) THEN last ELSE Len(all_results))

OwnOutcome(c) == c.backend /\ ~c.backend_raised

SameOutcomes(cs, rs) ==
    \A id \in SceneIds : \A ok \in BOOLEAN :
        Cardinality({k \in 1..Len(cs) :
                        /\ cs[k].status = "returned"
                        /\ cs[k].scene_id = id
                        /\ OwnOutcome(cs[k]) = ok})
            = Cardinality({k \in 1..Len(rs) :
                              rs[k].scene_id = id /\ rs[k].success = ok})

C5_ParallelFailureIsolation ==
    \A u \in 1..Len(plan.orchestration.parallel_groups) :
        /\ GroupFinished(u) =>
              /\ Len(GroupCalls(u)) = Len(plan.orchestration.parallel_groups[u])
              /\ \A k \in 1..Len(GroupCalls(u)) : GroupCalls(u)[k].status = "returned"
              /\ Len(GroupResults(u)) = Len(plan.orchestration.parallel_groups[u])
              /\ SameOutcomes(GroupCalls(u), GroupResults(u))
        /\ (pc = "in_group" /\ unit_idx = u) =>
              /\ Len(results) = Cardinality({f \in 1..Len(futures) :
                                                futures[f].status = "done"})
              /\ SameOutcomes(GroupCalls(u), results)

\* C5 witness: a finished group of the three scenes 1, 2, 3 in which only
\* the backend call of scene 2 raised, with success for 1 and 3 only.
C5_Witness ==
    \E u \in 1..Len(plan.orchestration.parallel_groups) :
        /\ plan.orchestration.parallel_groups[u] = <<1, 2, 3>>
        /\ GroupFinished(u)
        /\ Len(GroupResults(u)) = 3
        /\ \A k \in 1..3 : GroupCalls(u)[k].backend_raised = (k = 2)
        /\ \A k \in 1..3 :
              GroupResults(u)[k].success = (GroupResults(u)[k].scene_id # 2)

\* C6: no invocation of execute_single_scene lets an exception escape; each
\* returns a result for its scene whose error is set exactly when success
\* is false.
C6_SingleSceneNeverRaises ==
    /\ pc # "raised"
    /\ \A i \in CallIds :
          Returned(i) =>
              /\ ~calls[i].exc
              /\ calls[i].result.scene_id = calls[i].scene_id
              /\ calls[i].result.error = ~calls[i].result.success

\* C6 witness: an invocation whose backend call raised and one that failed
\* before the backend call have both returned failed results with an error.
C6_Witness ==
    /\ \E i \in CallIds :
          /\ Returned(i) /\ calls[i].backend_raised
          /\ ~calls[i].result.success /\ calls[i].result.error
    /\ \E i \in CallIds :
          /\ Returned(i) /\ ~calls[i].backend
          /\ ~calls[i].result.success /\ calls[i].result.error

\* C7: under fair scheduling execute_plan, once started, returns; and when
\* it has returned every group entry, every chain entry and every scene no
\* group or chain names has been invoked and has returned, whatever failed.
C7_NeverAbortsEarly ==
    /\ (pc = "pregen") ~> (pc = "done")
    /\ [](pc = "done" =>
             /\ Len(calls) = Scheduled(plan)
             /\ \A i \in CallIds : Returned(i))

\* C7 witness: execute_plan has returned although pre-generation produced
\* no image for a scene with image prompts, a parallel scene failed and a
\* later scene, run after the failures, failed too.
C7_Witness ==
    /\ pc = "done"
    /\ plan.scenes[1].pre_generate_images
    /\ plan.scenes[1].image_prompts > 0
    /\ scene_images[1] = 0
    /\ \E i, j \in CallIds :
          /\ i < j
          /\ calls[i].stage = "group" /\ ~calls[i].result.success
          /\ calls[j].stage # "group" /\ ~calls[j].result.success
          /\ j < Len(calls)

\* C8: invocations start in stage order, groups, then chains, then the
\* fallback pass; when a chain scene starts every scene of every group has
\* returned, and when a fallback scene starts every chain scene has.
StageRank(c) == IF c.stage = "group" THEN 1 ELSE IF c.stage = "chain" THEN 2 ELSE 3

CallsOfRank(r) == {i \in CallIds : StageRank(calls[i]) = r}

C8_StageOrder ==
    /\ \A i, j \in CallIds :
          i < j => /\ StageRank(calls[i]) <= StageRank(calls[j])
                   /\ (StageRank(calls[i]) < StageRank(calls[j]) => Returned(i))
    /\ (CallsOfRank(2) \cup CallsOfRank(3) # {} =>
           Cardinality(CallsOfRank(1)) = SumLen(plan.orchestration.parallel_groups))
    /\ (CallsOfRank(3) # {} =>
           Cardinality(CallsOfRank(2)) = SumLen(plan.orchestration.sequential_chains))

\* C8 witness: scenes of two groups, of a chain and of the fallback pass ran.
C8_Witness ==
    /\ \E i \in CallsOfRank(1) : calls[i].unit = 2
    /\ CallsOfRank(2) # {}
    /\ CallsOfRank(3) # {}

\* C9: in a chain, a scene starts only when every earlier scene of the chain
\* has returned.
C9_ChainIsSequential ==
    \A i, j \in CallIds :
        (/\ i < j
         /\ calls[i].stage = "chain" /\ calls[j].stage = "chain"
         /\ calls[i].unit = calls[j].unit) => Returned(i)

\* C9 witness: the second scene of a chain is running after the first failed.
C9_Witness ==
    \E i, j \in CallIds :
        /\ i < j
        /\ calls[i].stage = "chain" /\ calls[j].stage = "chain"
        /\ calls[i].unit = calls[j].unit
        /\ Returned(i) /\ ~calls[i].result.success
        /\ ~Returned(j)

\* C10: at most max_parallel_workers invocations of execute_single_scene are
\* in progress at any time.
InProgress == {i \in CallIds : calls[i].status = "running"}

C10_BoundedConcurrency == Cardinality(InProgress) <= max_parallel_workers

\* C10 witness: every worker of the pool is busy while a submitted scene
\* waits in the queue.
C10_Witness ==
    /\ Cardinality(InProgress) = max_parallel_workers
    /\ pc = "in_group"
    /\ Queued(futures) # {}

\* C11: no invocation made by the fallback pass (the scenes no group and no
\* chain names) carries a continuation token.
C11_FallbackWithoutToken ==
    \A i \in CallIds : calls[i].stage = "fallback" => calls[i].token = None

(***************************************************************************)
(* Store calls made by concurrent threads.  Each thread makes one call:    *)
(* _ensure_collection under the lock, then the body of the call under the  *)
(* lock.  The loop of update_one and delete_one and the write that follows *)
(* it are two steps inside one critical section.                           *)
(***************************************************************************)
Threads == {"t1", "t2"}

\* What uuid4() gives to a thread.
Uuid(t) == IF t = "t1" THEN "uuid1" ELSE "uuid2"

StoreCall(op, filter, owner_id, patch, document) ==
    [op |-> op, coll |-> "assets", filter |-> filter, owner_id |-> owner_id,
     patch |-> patch, document |-> document]

CallFilters ==
    {NoneFilter, EmptyFilter, Filter({"id"}, "d1", ""), Filter({"v"}, NoId, "x")}

StoreCalls ==
    {StoreCall("insert_one", EmptyFilter, NoOwner, "", d) :
        d \in {Doc("d1", "A", "y"), Doc(NoId, "A", "x")}}
    \cup {StoreCall(op, f, o, "y", NoDoc) :
            op \in {"find", "find_one", "update_one", "delete_one"},
            f \in CallFilters, o \in {NoOwner, "A"}}

\* The stores the calls start from: "assets" absent, or holding up to two
\* documents d1, d2 of any owners.
InitialItems ==
    {<<>>}
    \cup {<<[key |-> "d1", doc |-> Doc("d1", o, "x")]>> : o \in Owners}
    \cup {<<[key |-> "d1", doc |-> Doc("d1", o1, "x")],
            [key |-> "d2", doc |-> Doc("d2", o2, "x")]>> : o1 \in Owners, o2 \in Owners}

InitialStores ==
    {EmptyStore}
    \cup {[EmptyStore EXCEPT !["assets"] = [exists |-> TRUE, items |-> it]] :
            it \in InitialItems}

PlanIdle ==
    /\ plan = [scenes |-> <<>>,
               orchestration |-> [parallel_groups |-> <<>>, sequential_chains |-> <<>>]]
    /\ pc = "idle"
    /\ pre_idx = 0
    /\ img_idx = 0
    /\ img_busy = FALSE
    /\ generated_images = 0
    /\ scene_images = [id \in SceneIds |-> 0]
    /\ unit_idx = 0
    /\ futures = <<>>
    /\ seq_scenes = <<>>
    /\ seq_pos = 0
    /\ seq_running = FALSE
    /\ previous_video_uri = None
    /\ results = <<>>
    /\ all_results = <<>>
    /\ calls = <<>>
    /\ image_calls = 0
    /\ image_errors = 0
    /\ returned = <<>>
    /\ request = MemberRequest
    /\ detail = NoError
    /\ mutations = <<>>

StoreInit ==
    /\ PlanIdle
    /\ UsageIdle
    /\ db0 \in InitialStores
    /\ collections = db0
    /\ lock = Unlocked
    /\ threads \in [Threads -> {[call |-> c, pc |-> "start", hit |-> NoHit, ret |-> NoRet] :
                                   c \in StoreCalls}]
    /\ files = NoFiles
    /\ snapshot = EmptyStore
    /\ persist_pc = "idle"

\* A lock that anyone may take at any time.
LockIgnored(l) == TRUE

\* with self._lock: the block is entered when no thread holds the lock.
LockAvailable(l) == l = Unlocked

\* _ensure_collection, called first by every store call.
EnsureCollection(t) ==
    /\ threads[t].pc = "start"
    /\ LockAvailable(lock)
    /\ collections' = ensure_collection(collections, threads[t].call.coll)
    /\ threads' = [threads EXCEPT ![t].pc = "ensured"]
    /\ UNCHANGED <<outside_store, lock, db0, persist_vars>>

InsertOne(t) ==
    LET c == threads[t].call
        r == insert_one(collections, c.coll, c.document, Uuid(t))
    IN  /\ threads[t].pc = "ensured"
        /\ c.op = "insert_one"
        /\ LockAvailable(lock)
        /\ collections' = r.store
        /\ threads' = [threads EXCEPT ![t].pc = "done", ![t].ret = r.ret]
        /\ UNCHANGED <<outside_store, lock, db0, persist_vars>>

\* find, and find_one which calls it.
Find(t) ==
    LET c == threads[t].call IN
    /\ threads[t].pc = "ensured"
    /\ c.op \in {"find", "find_one"}
    /\ LockAvailable(lock)
    /\ threads' = [threads EXCEPT
            ![t].pc = "done",
            ![t].ret = IF c.op = "find"
                       THEN find(collections, c.coll, c.filter, c.owner_id)
                       ELSE find_one(collections, c.coll, c.filter, c.owner_id)]
    /\ UNCHANGED <<outside_store, collections, lock, db0, persist_vars>>

\* The loop of update_one / delete_one up to the first match.  Without a
\* match the with block is left and KeyError is raised (RuntimeError for the
\* exception of filter.items()); with one, the thread goes on holding the lock.
Scan(t) ==
    LET c == threads[t].call
        items == collections[c.coll].items
        hit == FirstMatch(items, c.filter, c.owner_id)
    IN  /\ threads[t].pc = "ensured"
        /\ c.op \in {"update_one", "delete_one"}
        /\ LockAvailable(lock)
        /\ IF InOwnerScope(items, c.owner_id) = {}
           THEN /\ threads' = [threads EXCEPT ![t].pc = "done", ![t].ret = RaisedKeyError]
                /\ lock' = lock
           ELSE IF c.filter.none
           THEN /\ threads' = [threads EXCEPT ![t].pc = "done", ![t].ret = RaisedRuntimeError]
                /\ lock' = lock
           ELSE IF hit = 0
           THEN /\ threads' = [threads EXCEPT ![t].pc = "done", ![t].ret = RaisedKeyError]
                /\ lock' = lock
           ELSE /\ threads' = [threads EXCEPT ![t].pc = "matched", ![t].hit = items[hit]]
                /\ lock' = t
        /\ UNCHANGED <<outside_store, collections, db0, persist_vars>>

\* The write of update_one / delete_one for the matched entry, then the
\* return, which leaves the with block.
Apply(t) ==
    LET c == threads[t].call
        items == collections[c.coll].items
        h == threads[t].hit
    IN  /\ threads[t].pc = "matched"
        /\ IF c.op = "update_one"
           THEN /\ collections' = [collections EXCEPT ![c.coll].items =
                                      DictSet(@, h.key, Patched(h.doc, c.patch))]
                /\ threads' = [threads EXCEPT
                        ![t].pc = "done",
                        ![t].ret = RetDocs(<<Patched(h.doc, c.patch)>>)]
           ELSE IF HasKey(items, h.key)
           THEN /\ collections' = [collections EXCEPT ![c.coll].items = DictPop(@, h.key)]
                /\ threads' = [threads EXCEPT
                        ![t].pc = "done",
                        ![t].ret = RetDocs(<<items[CHOOSE i \in 1..Len(items) :
                                                      items[i].key = h.key].doc>>)]
           ELSE /\ collections' = collections
                /\ threads' = [threads EXCEPT ![t].pc = "done", ![t].ret = RaisedKeyError]
        /\ lock' = Unlocked
        /\ UNCHANGED <<outside_store, db0, persist_vars>>

StoreNext ==
    \E t \in Threads :
        \/ EnsureCollection(t)
        \/ InsertOne(t)
        \/ Find(t)
        \/ Scan(t)
        \/ Apply(t)

StoreSpec == StoreInit /\ [][StoreNext]_vars

\* One whole store call on store st.
RunCall(st, c, uuid) ==
    LET st1 == ensure_collection(st, c.coll) IN
    IF c.op = "insert_one" THEN insert_one(st1, c.coll, c.document, uuid)
    ELSE IF c.op = "find"
    THEN [store |-> st1, ret |-> find(st1, c.coll, c.filter, c.owner_id)]
    ELSE IF c.op = "find_one"
    THEN [store |-> st1, ret |-> find_one(st1, c.coll, c.filter, c.owner_id)]
    ELSE IF c.op = "update_one"
    THEN update_one(st1, c.coll, c.filter, c.patch, c.owner_id)
    ELSE delete_one(st1, c.coll, c.filter, c.owner_id)

Stepping(t) == threads'[t] # threads[t]
AllReturned == \A t \in Threads : threads[t].pc = "done"

\* C12: a find, find_one, update_one or delete_one call scoped to an owner
\* returns only documents of that owner, and its steps leave every entry of
\* every other owner as it was.
OthersEntries(st, owner_id) ==
    [c \in CollNames |->
        SelectSeq(st[c].items, LAMBDA e : e.doc.owner_id # owner_id)]

C12_OwnerIsolation ==
    [][\A t \in Threads :
          LET c == threads[t].call IN
          (/\ Stepping(t)
           /\ c.op \in {"find", "find_one", "update_one", "delete_one"}
           /\ c.owner_id # NoOwner) =>
              /\ OthersEntries(collections', c.owner_id)
                     = OthersEntries(collections, c.owner_id)
              /\ \A k \in 1..Len(threads'[t].ret.docs) :
                    threads'[t].ret.docs[k].owner_id = c.owner_id]_vars

\* C12 witness: an update_one or delete_one scoped to owner A has returned a
\* document although the first document its filter matches belongs to B.
C12_Witness ==
    \E t \in Threads :
        LET c == threads[t].call IN
        /\ threads[t].pc = "done"
        /\ c.op \in {"update_one", "delete_one"}
        /\ c.owner_id = "A"
        /\ ~c.filter.none
        /\ db0[c.coll].items # <<>>
        /\ db0[c.coll].items[1].doc.owner_id = "B"
        /\ FilterMatch(db0[c.coll].items[1].doc, c.filter)
        /\ threads[t].ret.kind = "docs"
        /\ \E i \in 1..Len(collections[c.coll].items) :
              collections[c.coll].items[i] = db0[c.coll].items[1]

\* C13: when all threads have returned, the store contents and every return
\* value are those of the calls made one after the other in some order.
ThreadOrders ==
    {o \in [1..Cardinality(Threads) -> Threads] :
        \A i, j \in 1..Cardinality(Threads) : o[i] = o[j] => i = j}

RECURSIVE SequentialFrom(_, _, _)
SequentialFrom(st, order, k) ==
    IF k > Len(order) THEN collections = st
    ELSE LET r == RunCall(st, threads[order[k]].call, Uuid(order[k]))
         IN  /\ threads[order[k]].ret = r.ret
             /\ SequentialFrom(r.store, order, k + 1)

C13_CallsAreAtomic ==
    AllReturned => \E order \in ThreadOrders : SequentialFrom(db0, order, 1)

\* C13 witness: an update_one and a delete_one aimed at the same document
\* have both returned; the delete_one came first, so that the update_one,
\* which would have matched the document, raised KeyError.
C13_Witness ==
    /\ AllReturned
    /\ \E t, u \in Threads :
          /\ threads[t].call.op = "update_one"
          /\ threads[u].call.op = "delete_one"
          /\ threads[u].ret.kind = "docs"
          /\ threads[t].ret.kind = "KeyError"
          /\ RunCall(db0, threads[t].call, Uuid(t)).ret.kind = "docs"

\* C16: an update_one or delete_one whose filter matches no document within
\* the owner scope raises KeyError, not RuntimeError, a find_one returns
\* None, and the store is left as it was.
C16_NotFound ==
    [][\A t \in Threads :
          LET c == threads[t].call IN
          (/\ Stepping(t)
           /\ threads[t].pc = "ensured"
           /\ c.op \in {"find_one", "update_one", "delete_one"}
           /\ ~c.filter.none
           /\ \A i \in 1..Len(collections[c.coll].items) :
                 LET d == collections[c.coll].items[i].doc
                 IN  ~(/\ (c.owner_id = NoOwner \/ d.owner_id = c.owner_id)
                       /\ ("id" \in c.filter.keys => d.id = c.filter.id)
                       /\ ("v" \in c.filter.keys => d.v = c.filter.v))) =>
              /\ collections' = collections
              /\ threads'[t].pc = "done"
              /\ threads'[t].ret.kind = IF c.op = "find_one" THEN "None" ELSE "KeyError"
              /\ threads'[t].ret.kind # "RuntimeError"]_vars

\* C16 witness: a delete_one has raised KeyError and a find_one has returned
\* None for a filter that only a document of another owner matches, and the
\* store holds what it held before.
C16_Witness ==
    /\ AllReturned
    /\ \E t, u \in Threads :
          /\ threads[t].call.op = "delete_one" /\ threads[t].ret.kind = "KeyError"
          /\ threads[u].call.op = "find_one" /\ threads[u].ret.kind = "None"
          /\ threads[t].call.owner_id = "A" /\ threads[u].call.owner_id = "A"
          /\ threads[t].call.filter = Filter({"id"}, "d1", "")
          /\ threads[u].call.filter = Filter({"id"}, "d1", "")
    /\ db0["assets"].items # <<>>
    /\ db0["assets"].items[1].doc = Doc("d1", "B", "x")
    /\ collections = db0

\* The document is within the owner scope of the call and has the values
\* the filter of the call names.
Hits(d, c) ==
    /\ c.owner_id = NoOwner \/ d.owner_id = c.owner_id
    /\ "id" \in c.filter.keys => d.id = c.filter.id
    /\ "v" \in c.filter.keys => d.v = c.filter.v

\* The positions of the collection of call c whose document it hits.
HitPositions(st, c) ==
    {i \in 1..Len(st[c.coll].items) : Hits(st[c.coll].items[i].doc, c)}

\* C35: the step by which an update_one or delete_one takes effect touches
\* the first document the call hits and nothing else: update_one sets the
\* patched field of that document, keeps its other fields and its place,
\* and returns it as patched; delete_one removes it and returns it; every
\* other document and every other collection stay as they were.
C35_ExactlyFirstMatch ==
    [][\A t \in Threads :
          LET c == threads[t].call
              old == collections[c.coll].items
              new == collections'[c.coll].items
              S == HitPositions(collections, c)
          IN  (Stepping(t) /\ threads[t].pc = "matched") =>
                 /\ S # {}
                 /\ \A other \in CollNames \ {c.coll} : collections'[other] = collections[other]
                 /\ \E i \in S :
                       /\ \A j \in S : i <= j
                       /\ IF c.op = "update_one"
                          THEN /\ Len(new) = Len(old)
                               /\ \A j \in 1..Len(old) : j # i => new[j] = old[j]
                               /\ new[i].key = old[i].key
                               /\ new[i].doc = [id |-> old[i].doc.id,
                                                owner_id |-> old[i].doc.owner_id,
                                                v |-> c.patch]
                               /\ threads'[t].ret = RetDocs(<<new[i].doc>>)
                          ELSE /\ Len(new) = Len(old) - 1
                               /\ \A j \in 1..Len(new) :
                                     new[j] = IF j < i THEN old[j] ELSE old[j + 1]
                               /\ threads'[t].ret = RetDocs(<<old[i].doc>>)]_vars

\* An update_one and a delete_one have taken effect on a store of two
\* documents that both calls hit: the second document is gone and the first
\* has the patched value, or the first is gone and the second is patched.
C35_Witness ==
    /\ AllReturned
    /\ Len(db0["assets"].items) = 2
    /\ \E t, u \in Threads :
          /\ threads[t].call.op = "update_one" /\ threads[t].ret.kind = "docs"
          /\ threads[u].call.op = "delete_one" /\ threads[u].ret.kind = "docs"
          /\ Cardinality(HitPositions(db0, threads[t].call)) = 2
          /\ Cardinality(HitPositions(db0, threads[u].call)) = 2
    /\ Len(collections["assets"].items) = 1
    /\ collections["assets"].items[1].doc.v = "y"

(***************************************************************************)
(* utils/usage.py: increment_user_usage called by concurrent requests of   *)
(* one user on one day.  Each call reads the user document with            *)
(* get_user_by_id (one store call), computes on its copy, and writes the   *)
(* usage fields with update_user_fields (another store call).              *)
(***************************************************************************)
DailyLimit == 2
Callers == {"r1", "r2", "r3"}
Deltas == {1, 2}

UsageInit ==
    /\ PlanIdle
    /\ StoreIdle
    /\ usage0 \in {UsageFields(d, n, DailyLimit) :
                      d \in {TODAY, YESTERDAY}, n \in 0..DailyLimit}
    /\ usage_doc = usage0
    /\ usage_thr \in [Callers -> {[pc |-> "start", delta |-> d, user |-> NoUsage,
                                   outcome |-> "pending"] : d \in Deltas}]

\* The day-change reset of increment_user_usage on its copy of the document.
ResetIfNewDay(user) ==
    IF user.usage_today_date # TODAY
    THEN [user EXCEPT !.usage_today_date = TODAY, !.usage_today_count = 0]
    ELSE user

\* user = get_user_by_id(user_id), then the reset on the copy.
GetUserById(t) ==
    /\ usage_thr[t].pc = "start"
    /\ usage_thr' = [usage_thr EXCEPT ![t].pc = "read",
                                      ![t].user = ResetIfNewDay(usage_doc)]
    /\ UNCHANGED <<outside_usage, usage_doc, usage0>>

\* A check that only asks whether the limit is already reached.
ExceedsLimitAlready(current, delta, limit) == current >= limit

\* if current + delta > limit: the call is refused with 403.
ExceedsLimit(current, delta, limit) == current + delta > limit

\* The limit check on the copy, then update_user_fields with the new count.
PersistUsage(t) ==
    LET u == usage_thr[t].user
        current == u.usage_today_count
        delta == usage_thr[t].delta
    IN  /\ usage_thr[t].pc = "read"
        /\ IF ExceedsLimit(current, delta, u.daily_limit)
           THEN /\ usage_thr' = [usage_thr EXCEPT ![t].pc = "done",
                                                  ![t].outcome = "refused"]
                /\ usage_doc' = usage_doc
           ELSE /\ usage_thr' = [usage_thr EXCEPT
                        ![t].pc = "done", ![t].outcome = "ok",
                        ![t].user = [u EXCEPT !.usage_today_count = current + delta]]
                /\ usage_doc' = UsageFields(u.usage_today_date, current + delta,
                                            u.daily_limit)
        /\ UNCHANGED <<outside_usage, usage0>>

UsageNext == \E t \in Callers : GetUserById(t) \/ PersistUsage(t)

UsageSpec == UsageInit /\ [][UsageNext]_vars

RECURSIVE SumOver(_, _)
SumOver(S, f) ==
    IF S = {} THEN 0
    ELSE LET x == CHOOSE y \in S : TRUE IN f[x] + SumOver(S \ {x}, f)

Succeeded == {t \in Callers : usage_thr[t].outcome = "ok"}
CountBefore == ResetIfNewDay(usage0).usage_today_count

\* C14: once the concurrent increment_user_usage calls have returned, the
\* stored usage_today_count is the count before them plus the delta of
\* every call that succeeded, so it accounts for every success and the
\* successes stay within daily_limit.
C14_UsageNoLostUpdate ==
    (\A t \in Callers : usage_thr[t].pc = "done") =>
        /\ usage_doc.usage_today_count
               = CountBefore + SumOver(Succeeded, [t \in Callers |-> usage_thr[t].delta])
        /\ CountBefore + SumOver(Succeeded, [t \in Callers |-> usage_thr[t].delta])
               <= usage_doc.daily_limit

\* C32: the stored usage_today_count never exceeds daily_limit; a call whose
\* increment would take the count it read above the limit is refused, and a
\* refused call leaves the stored document as it was.
C32_CountWithinLimit ==
    /\ [](usage_doc.usage_today_count <= usage_doc.daily_limit)
    /\ [][\A t \in Callers :
            (usage_thr[t].pc = "read" /\ usage_thr'[t].pc = "done") =>
                /\ (usage_thr[t].user.usage_today_count + usage_thr[t].delta
                        > usage_thr[t].user.daily_limit)
                       <=> usage_thr'[t].outcome = "refused"
                /\ usage_thr'[t].outcome = "refused" => usage_doc' = usage_doc]_vars

\* Every call has returned, one of them refused, one accepted after the
\* day-change reset, and the stored count has reached the limit.
C32_Witness ==
    /\ \A t \in Callers : usage_thr[t].pc = "done"
    /\ \E t \in Callers : usage_thr[t].outcome = "refused"
    /\ \E t \in Callers : usage_thr[t].outcome = "ok"
    /\ usage0.usage_today_date = YESTERDAY
    /\ usage0.usage_today_count = usage0.daily_limit
    /\ usage_doc.usage_today_count = usage_doc.daily_limit
    /\ usage_doc.usage_today_date = TODAY

(***************************************************************************)
(* database/db.py: dump_to_files and load_from_files (Config.PERSIST on).  *)
(*                                                                         *)
(* Documents are inserted, the store is dumped, the process restarts with  *)
(* an empty InMemoryMongo, and load_from_files reads the files back.       *)
(***************************************************************************)

\* json.dump(..., default=str) of a document: a value json cannot write is
\* replaced by str(value).
json_dump(doc) == [doc EXCEPT !.v = IF @ = DATETIME THEN DATETIME_STR ELSE @]

\* json.load of what json.dump wrote: strings stay strings.
json_load(text) == text

\* The documents inserted before the dump.
InsertedDocs == {Doc(id, "A", v) : id \in DocIds \cup {NoId}, v \in FieldValues}

PersistInit ==
    /\ PlanIdle
    /\ UsageIdle
    /\ collections = EmptyStore
    /\ lock = Unlocked
    /\ threads = <<>>
    /\ db0 = EmptyStore
    /\ files = NoFiles
    /\ snapshot = EmptyStore
    /\ persist_pc = "serving"

\* db.insert_one(coll, document) while the application is serving.
PersistInsert ==
    /\ persist_pc = "serving"
    /\ \E coll \in CollNames, document \in InsertedDocs :
        /\ document.id = NoId => ~HasKey(collections[coll].items, "uuid1")
        /\ collections' =
               insert_one(ensure_collection(collections, coll), coll, document, "uuid1").store
    /\ UNCHANGED <<outside_store, lock, threads, db0, persist_vars>>

\* dump_to_files: one file per collection, holding list(v.values()).
DumpToFiles ==
    /\ persist_pc = "serving"
    /\ files' = [c \in CollNames |->
                    IF collections[c].exists
                    THEN [exists |-> TRUE, parsable |-> TRUE,
                          docs |-> [i \in 1..Len(collections[c].items) |->
                                       json_dump(collections[c].items[i].doc)]]
                    ELSE files[c]]
    /\ snapshot' = collections
    /\ persist_pc' = "dumped"
    /\ UNCHANGED <<outside_store, collections, lock, threads, db0>>

\* The process ends; the next one starts with db = InMemoryMongo().
Restart ==
    /\ persist_pc = "dumped"
    /\ collections' = EmptyStore
    /\ persist_pc' = "restarted"
    /\ UNCHANGED <<outside_store, lock, threads, db0, files, snapshot>>

\* Entries of a file that are not documents with a usable id: a JSON value
\* that is no object, and an object whose id is a list.
NotADict == Doc("not a dict", NoOwner, "")
UnhashableId == "['d1']"

\* What uuid4() gives: an id no document of the store has.
Uuids == {"uuid1", "uuid2", "uuid3", "uuid4", "uuid5", "uuid6", "uuid7", "uuid8"}
uuid4(st) == CHOOSE u \in Uuids : \A c \in CollNames : ~HasKey(st[c].items, u)

\* The loop of load_from_files over the documents of one file, from the
\* k-th: an entry that is no dict is skipped; a document whose id is already
\* in memory is skipped; the others go through insert_one, which gives a
\* document without id a new one.  The lookup of an unhashable id raises,
\* which ends the loop over the file.
RECURSIVE LoadDocs(_, _, _, _)
LoadDocs(st, coll, docs, k) ==
    IF k > Len(docs) THEN st
    ELSE LET d == json_load(docs[k])
             ensured == ensure_collection(st, coll)
         IN  IF d = NotADict THEN LoadDocs(st, coll, docs, k + 1)
             ELSE IF d.id = UnhashableId THEN ensured
             ELSE IF d.id # NoId /\ HasKey(ensured[coll].items, d.id)
             THEN LoadDocs(ensured, coll, docs, k + 1)
             ELSE LoadDocs(insert_one(ensured, coll, d, uuid4(ensured)).store,
                           coll, docs, k + 1)

\* The loop of load_from_files over the files, in the order of the names.
RECURSIVE LoadFiles(_, _)
LoadFiles(st, names) ==
    IF names = {} THEN st
    ELSE LET c == CHOOSE n \in names : TRUE
         IN  LoadFiles(IF files[c].exists /\ files[c].parsable
                       THEN LoadDocs(st, c, files[c].docs, 1) ELSE st,
                       names \ {c})

\* load_from_files at start-up, and called once more.
LoadFromFiles ==
    /\ persist_pc \in {"restarted", "loaded"}
    /\ collections' = LoadFiles(collections, CollNames)
    /\ persist_pc' = IF persist_pc = "restarted" THEN "loaded" ELSE "reloaded"
    /\ UNCHANGED <<outside_store, lock, threads, db0, files, snapshot>>

PersistNext == PersistInsert \/ DumpToFiles \/ Restart \/ LoadFromFiles

PersistSpec == PersistInit /\ [][PersistNext]_vars

\* The documents of a store, by collection and id.
StoredDocs(st) ==
    UNION {{<<c, st[c].items[i].doc>> : i \in 1..Len(st[c].items)} : c \in CollNames}

\* C15: once load_from_files has run on the restarted store, the store holds
\* exactly the documents it held when dump_to_files ran: the same collections,
\* the same ids, and every field with the value it had.
C15_RoundTrip ==
    persist_pc = "loaded" =>
        /\ \A c \in CollNames : collections[c].exists = snapshot[c].exists
        /\ StoredDocs(collections) = StoredDocs(snapshot)

(***************************************************************************)
(* common/routes.py: generate_unified for a plan-execution request, from   *)
(* the first line of the handler.  Prepare is the handler up to the plan   *)
(* mode branch (guest quota, daily usage, conversation); Validate and      *)
(* execute_plan follow; Respond is the handler after execute_plan          *)
(* returned.  The request is the only one in progress.                     *)
(***************************************************************************)
RequestIds == {1, 2}

\* Scenes with any of the ids, any mode and any dependencies, and one scene
\* that asks for pre-generated images.
AnyScenes ==
    {[id |-> i, mode |-> m, dependencies |-> d,
      pre_generate_images |-> FALSE, image_prompts |-> 0] :
        i \in RequestIds, m \in Modes, d \in SUBSET RequestIds}
    \cup {[id |-> 1, mode |-> TEXT_TO_VIDEO, dependencies |-> {},
           pre_generate_images |-> TRUE, image_prompts |-> 2]}

AnySceneLists ==
    {<<>>} \cup {<<a>> : a \in AnyScenes} \cup {<<a, b>> : a \in AnyScenes, b \in AnyScenes}

\* At most one group and one chain, of one id each.
SmallOrchestrations ==
    {[parallel_groups |-> g, sequential_chains |-> c] :
        g \in IdLists(0) \cup IdLists(1), c \in IdLists(0) \cup IdLists(1)}

\* Any plan a client may send: no scene, repeated ids, dependencies and
\* groups naming no scene, continuation scenes without dependencies.
AnyPlans ==
    {[scenes |-> ss, orchestration |-> o] : ss \in AnySceneLists, o \in SmallOrchestrations}

Requests ==
    {Request(FALSE, 0, u, c) : u \in BOOLEAN, c \in {"None", "own", "unknown"}}
    \cup {Request(TRUE, q, u, c) :
            q \in {0, 1}, u \in BOOLEAN, c \in {"None", "own", "unknown"}}

\* A store write: the call and the collection.
Mutation(op, coll) == [op |-> op, collection |-> coll]

\* The errors the handler raises before it looks at the plan.
PrepareErrors ==
    {"Guest quota exhausted", "Daily usage limit reached", "conversation not found"}

RequestInit ==
    /\ plan \in AnyPlans
    /\ pc = "received"
    /\ pre_idx = 0
    /\ img_idx = 0
    /\ img_busy = FALSE
    /\ generated_images = 0
    /\ scene_images = [id \in SceneIds |-> 0]
    /\ unit_idx = 0
    /\ futures = <<>>
    /\ seq_scenes = <<>>
    /\ seq_pos = 0
    /\ seq_running = FALSE
    /\ previous_video_uri = None
    /\ results = <<>>
    /\ all_results = <<>>
    /\ calls = <<>>
    /\ image_calls = 0
    /\ image_errors = 0
    /\ returned = <<>>
    /\ request \in Requests
    /\ detail = NoError
    /\ mutations = <<>>
    /\ StoreIdle
    /\ UsageIdle

\* generate_unified up to the plan mode branch.
Prepare ==
    /\ pc = "received"
    /\ UNCHANGED outside_plan
    /\ LET exhausted == request.is_guest /\ request.guest_quota <= 0
           quota_write == IF request.is_guest /\ ~exhausted
                          THEN <<Mutation("update_one", "users")>> ELSE <<>>
           conv_write == IF request.conversation = "None"
                         THEN <<Mutation("insert_one", "conversations")>> ELSE <<>>
       IN  IF exhausted
           THEN /\ detail' = "Guest quota exhausted"
                /\ mutations' = mutations
           ELSE IF ~request.usage_left
           THEN /\ detail' = "Daily usage limit reached"
                /\ mutations' = mutations \o quota_write
           ELSE IF request.conversation = "unknown"
           THEN /\ detail' = "conversation not found"
                /\ mutations' = mutations \o quota_write
           ELSE /\ detail' = NoError
                /\ mutations' = mutations \o quota_write \o conv_write
    /\ pc' = IF detail' = NoError THEN "request" ELSE "rejected"
    /\ UNCHANGED <<plan, request, pre_idx, img_idx, img_busy, generated_images,
                   scene_images, unit_idx, futures, seq_scenes, seq_pos,
                   seq_running, previous_video_uri, results, all_results,
                   calls, image_calls, image_errors, returned>>

\* The add_asset_metadata calls of the handler: one per successful result
\* with a video_url.
AssetWrites(rs) ==
    [i \in 1..Len(SelectSeq(rs, LAMBDA r : r.success /\ r.video_url)) |->
        Mutation("insert_one", "assets")]

\* generate_unified after execute_plan returned: the conversation cost, the
\* assets, the two messages and the usage count.
Respond ==
    /\ pc = "done"
    /\ UNCHANGED outside_plan
    /\ pc' = "responded"
    /\ mutations' = mutations
                        \o <<Mutation("update_one", "conversations")>>
                        \o AssetWrites(returned)
                        \o <<Mutation("update_one", "conversations"),
                             Mutation("update_one", "conversations"),
                             Mutation("update_one", "users")>>
    /\ UNCHANGED <<plan, request, detail, pre_idx, img_idx, img_busy,
                   generated_images, scene_images, unit_idx, futures,
                   seq_scenes, seq_pos, seq_running, previous_video_uri,
                   results, all_results, calls, image_calls, image_errors, returned>>

RequestNext == Prepare \/ Next \/ Respond

RequestSpec == RequestInit /\ [][RequestNext]_vars

\* The five checks of the validator, in the order they are made, each with
\* the name of its violation.
HasScene(p) == Len(p.scenes) >= 1

UniqueIds(p) ==
    \A i, j \in 1..Len(p.scenes) : p.scenes[i].id = p.scenes[j].id => i = j

DependenciesExist(p) ==
    \A i \in 1..Len(p.scenes) : \A d \in p.scenes[i].dependencies :
        \E j \in 1..Len(p.scenes) : p.scenes[j].id = d

ContinuationsDepend(p) ==
    \A i \in 1..Len(p.scenes) :
        p.scenes[i].mode = EXTEND_VIDEO => p.scenes[i].dependencies # {}

OrchestrationExists(p) ==
    \A u \in Range(p.orchestration.parallel_groups)
                \cup Range(p.orchestration.sequential_chains) :
        \A k \in 1..Len(u) : \E j \in 1..Len(p.scenes) : p.scenes[j].id = u[k]

Checks(p) ==
    <<[holds |-> HasScene(p), violation |-> "no_scenes"],
      [holds |-> UniqueIds(p), violation |-> "duplicate_ids"],
      [holds |-> DependenciesExist(p), violation |-> "missing_dependency"],
      [holds |-> ContinuationsDepend(p), violation |-> "extend_without_dependencies"],
      [holds |-> OrchestrationExists(p), violation |-> "missing_orchestration_scene"]>>

Violated(p) == {k \in 1..Len(Checks(p)) : ~Checks(p)[k].holds}

\* validate_plan has been called on the plan of the request.
Validated == pc \notin {"received", "request"} /\ detail \notin PrepareErrors

\* C17: once the validator has run, the plan was accepted exactly if the five
\* checks all hold, and a rejected plan is reported with the violation of the
\* first check, in the order of the list, that it fails.
C17_FirstViolationWins ==
    Validated =>
        /\ detail = NoError <=> Violated(plan) = {}
        /\ \A k \in Violated(plan) :
              (\A j \in Violated(plan) : k <= j) => detail = Checks(plan)[k].violation

\* A plan failing the second check and two later ones was rejected for the
\* second.
C17_Witness ==
    /\ Validated
    /\ Cardinality(Violated(plan)) >= 3
    /\ ~UniqueIds(plan)
    /\ detail = "duplicate_ids"

\* C19: a plan with repeated scene ids never gets past the validator, and
\* the request that carries it writes nothing to the store, whoever the
\* caller is and whether or not it names a conversation.
C19_DuplicateIdsNoMutation ==
    ~UniqueIds(plan) =>
        /\ pc \in {"received", "request", "rejected"}
        /\ mutations = <<>>

\* The plan has a continuation scene that names no dependency.
ExtendsNothing(p) ==
    \E i \in 1..Len(p.scenes) :
        p.scenes[i].mode = EXTEND_VIDEO /\ p.scenes[i].dependencies = {}

\* C18: a request whose plan has a continuation scene without dependencies
\* never gets past the validator: it ends rejected, and no image is asked
\* for and no scene is sent to the video backend.
C18_ExtendWithoutDependencies ==
    ExtendsNothing(plan) =>
        /\ pc \in {"received", "request", "rejected"}
        /\ Validated => detail \notin {NoError, "too_many_scenes"}
        /\ image_calls = 0
        /\ calls = <<>>

\* Rejected for the continuation scene alone, with another scene that asked
\* for pre-generated images.
C18_Witness ==
    /\ ExtendsNothing(plan)
    /\ \E i \in 1..Len(plan.scenes) : plan.scenes[i].pre_generate_images
    /\ Validated
    /\ pc = "rejected"
    /\ detail = "extend_without_dependencies"
    /\ image_calls = 0
    /\ calls = <<>>

(***************************************************************************)
(* common/plan_orchestrator.py: execute_plan called on any plan, without   *)
(* the route and its validate_plan call in front of it.                    *)
(***************************************************************************)
ExecutePlanInit ==
    /\ plan \in AnyPlans
    /\ pc = "pregen"
    /\ pre_idx = 1
    /\ img_idx = 0
    /\ img_busy = FALSE
    /\ generated_images = 0
    /\ scene_images = [id \in SceneIds |-> 0]
    /\ unit_idx = 0
    /\ futures = <<>>
    /\ seq_scenes = <<>>
    /\ seq_pos = 0
    /\ seq_running = FALSE
    /\ previous_video_uri = None
    /\ results = <<>>
    /\ all_results = <<>>
    /\ calls = <<>>
    /\ image_calls = 0
    /\ image_errors = 0
    /\ returned = <<>>
    /\ request = MemberRequest
    /\ detail = NoError
    /\ mutations = <<>>
    /\ StoreIdle
    /\ UsageIdle

ExecutePlanNext ==
    \/ PreGenNext
    \/ ImageCall
    \/ \E r \in ImageResponses : ImageReturn(r)
    \/ WorkerStart
    \/ \E f \in 1..Len(futures) : \E resp \in GenerateVideoResponses \cup {NotCalled} :
          ParallelReturn(f, resp)
    \/ SeqStart
    \/ \E resp \in GenerateVideoResponses \cup {NotCalled} : SeqReturn(resp)

ExecutePlanSpec == ExecutePlanInit /\ [][ExecutePlanNext]_vars

\* C20: execute_plan called with a plan that fails a check of the validator
\* raises ValueError: it asks for no image, invokes no scene and returns no
\* result list.
C20_ExecutePlanValidates ==
    Violated(plan) # {} =>
        /\ image_calls = 0
        /\ calls = <<>>
        /\ pc # "done"

(***************************************************************************)
(* Properties of execute_single_scene, execute_parallel_scenes and the     *)
(* pre-generation loop.                                                    *)
(***************************************************************************)

\* C21: an invocation of a continuation-mode scene without a continuation
\* token makes no backend generation call and returns a failed SceneResult
\* with its error set.
C21_ContinuationWithoutToken ==
    \A i \in CallIds :
        (calls[i].mode = EXTEND_VIDEO /\ calls[i].token = None) =>
            /\ ~calls[i].backend
            /\ Returned(i) =>
                  /\ ~calls[i].exc
                  /\ calls[i].result.scene_id = calls[i].scene_id
                  /\ ~calls[i].result.success
                  /\ calls[i].result.error

\* A continuation scene of an accepted plan has returned from an invocation
\* without a token.
C21_Witness ==
    \E i \in CallIds :
        /\ calls[i].mode = EXTEND_VIDEO
        /\ calls[i].token = None
        /\ Returned(i)
        /\ ~calls[i].backend
        /\ ~calls[i].result.success

\* C22: every scene run inside a parallel group is invoked with an empty
\* continuation token, whatever its siblings or earlier groups produced.
C22_GroupCallsWithoutToken ==
    \A i \in CallIds : calls[i].stage = "group" => calls[i].token = None

\* A continuation scene of a group ran without a token although a sibling
\* started before it had produced one.
C22_Witness ==
    \E i \in CallIds : \E j \in CallIds :
        /\ i < j
        /\ calls[i].stage = "group" /\ calls[j].stage = "group"
        /\ calls[i].unit = calls[j].unit
        /\ Returned(i) /\ calls[i].result.video_uri # None
        /\ calls[j].mode = EXTEND_VIDEO
        /\ Returned(j)
        /\ calls[j].token = None

\* The scene ids a group lists that name scenes of the plan.
GroupMembers(p, g) == {id \in Range(g) : InLookup(p, id)}

\* No scene listed in group g depends on another scene listed in g.
PairwiseIndependent(p, g) ==
    \A a \in GroupMembers(p, g) : \A b \in GroupMembers(p, g) :
        a # b => b \notin scene_lookup(p, a).dependencies

\* C23: in a plan the validator accepted, the scenes of every parallel group
\* are pairwise independent: none depends on another scene of its group.
C23_GroupsAreIndependent ==
    (pc \notin {"request", "rejected"}) =>
        \A k \in 1..Len(plan.orchestration.parallel_groups) :
            PairwiseIndependent(plan, plan.orchestration.parallel_groups[k])

\* C24: an image-generation call starts only when none is in progress, and
\* no scene is invoked before the pre-generation loop has gone through every
\* scene of the plan and its last image call has returned.
C24_PreGenerationFirst ==
    /\ [][image_calls' # image_calls => (~img_busy /\ calls = <<>>)]_vars
    /\ [](calls # <<>> =>
            /\ pre_idx > Len(plan.scenes)
            /\ ~img_busy
            /\ img_idx = 0
            /\ pc # "pregen")

\* A scene is being run after the two image calls of the plan returned.
C24_Witness ==
    /\ calls # <<>>
    /\ image_calls >= 2
    /\ ~img_busy

\* C25: an image call that raises does not stop anything: the loop goes on
\* to the next prompt or the next scene, every scene is then invoked with the
\* images that were produced for it, and execute_plan returns having made
\* every invocation the plan schedules.
C25_PreGenerationFailureIsolated ==
    /\ [][(img_busy /\ ~img_busy') =>
            /\ pc' = "pregen"
            /\ (img_idx' = img_idx + 1 \/ pre_idx' = pre_idx + 1)]_vars
    /\ [](\A i \in CallIds : calls[i].images = ImagesFor(scene_images, calls[i].scene_id))
    /\ [](pc = "done" => Len(calls) = Scheduled(plan))
    /\ [](image_errors > 0 => <>(pc = "done"))

\* Every image call of a scene raised, and the scene was then run without
\* images and succeeded.
C25_Witness ==
    /\ pc = "done"
    /\ image_errors >= 2
    /\ image_errors = image_calls
    /\ \E i \in CallIds :
          /\ SceneOfId(calls[i].scene_id).pre_generate_images
          /\ calls[i].images = 0
          /\ calls[i].result.success

\* The invocations of the sequential runner, and those of one run of it
\* made before the i-th.
RunnerCalls == {i \in CallIds : calls[i].stage \in {"chain", "fallback"}}

EarlierInRun(i) ==
    {j \in RunnerCalls : /\ j < i
                         /\ calls[j].stage = calls[i].stage
                         /\ calls[j].unit = calls[i].unit}

\* C29: the first scene of every sequential chain, and the first scene of
\* the fallback pass, is invoked with an empty token; a token a scene is
\* invoked with is the video of an earlier successful scene of the same
\* chain (or of the same fallback pass).
C29_TokenStaysInItsRun ==
    \A i \in RunnerCalls :
        /\ EarlierInRun(i) = {} => calls[i].token = None
        /\ calls[i].token # None =>
               \E j \in EarlierInRun(i) :
                   /\ Returned(j)
                   /\ calls[j].result.success
                   /\ calls[j].result.video_uri = calls[i].token

\* A chain passed a token from its first scene to its second, and the run
\* after it started without one.
C29_Witness ==
    \E i \in RunnerCalls : \E j \in RunnerCalls : \E k \in RunnerCalls :
        /\ i < j /\ j < k
        /\ i \in EarlierInRun(j)
        /\ calls[i].stage = "chain"
        /\ calls[j].token # None
        /\ Returned(j) /\ calls[j].result.video_uri # None
        /\ EarlierInRun(k) = {}
        /\ calls[k].token = None

(***************************************************************************)
(* database/db.py: load_from_files on any files, into a store that may     *)
(* already hold documents.                                                 *)
(***************************************************************************)
\* What a file may list: documents with an id, a document without, an entry
\* that is no object, an object with a list as id.
FileEntries ==
    {Doc("d1", "A", "x"), Doc("d2", "A", "x"), Doc(NoId, "A", "x"),
     NotADict, Doc(UnhashableId, "A", "x")}

\* A file: absent, not JSON, or a list of up to two entries.
FileChoices ==
    {NoFile, [exists |-> TRUE, parsable |-> FALSE, docs |-> <<>>]}
    \cup {[exists |-> TRUE, parsable |-> TRUE, docs |-> ds] :
            ds \in {<<>>} \cup {<<a>> : a \in FileEntries}
                      \cup {<<a, b>> : a \in FileEntries, b \in FileEntries}}

\* What is in memory when load_from_files is called.
MemoryStores ==
    {EmptyStore,
     [EmptyStore EXCEPT !["assets"] =
         [exists |-> TRUE, items |-> <<[key |-> "d1", doc |-> Doc("d1", "B", "y")]>>]]}

LoadInit ==
    /\ PlanIdle
    /\ UsageIdle
    /\ db0 \in MemoryStores
    /\ collections = db0
    /\ lock = Unlocked
    /\ threads = <<>>
    /\ files \in [CollNames -> FileChoices]
    /\ snapshot = EmptyStore
    /\ persist_pc = "restarted"

LoadSpec == LoadInit /\ [][LoadFromFiles]_vars

Keys(items) == {items[i].key : i \in 1..Len(items)}

\* C27: load_from_files leaves every document that was in memory as it was,
\* adds only documents under ids that were not in memory, goes through
\* unparsable files and entries, and called a second time on the same files
\* it leaves the store as the first call left it.
C27_LoadIsIdempotent ==
    /\ persist_pc \in {"loaded", "reloaded"} =>
          \A c \in CollNames :
              /\ SubSeq(collections[c].items, 1, Len(db0[c].items)) = db0[c].items
              /\ Cardinality(Keys(collections[c].items)) = Len(collections[c].items)
    /\ persist_pc = "reloaded" => collections = LoadFiles(db0, CollNames)

(***************************************************************************)
(* assets/services.py: add_asset_metadata and update_asset_field called by *)
(* several threads, each call being a store write (db.insert_one of a new  *)
(* document, or db.update_one) followed by db.dump_to_files.  The store    *)
(* write is one step (it runs under the store lock); dump_to_files creates *)
(* the directory and copies the collections under the lock, then writes    *)
(* the files one at a time without it.  The copy is shallow: it lists the  *)
(* document objects of each collection, so what is written for a listed    *)
(* document is what the document holds when the file is written.  A call   *)
(* may meet a failure of the disk: of makedirs, of open, or while          *)
(* json.dump is writing.                                                   *)
(***************************************************************************)
DumpFailures == {"none", "makedirs", "open", "serialize"}

\* A dump_to_files that lets the failure out to its caller.
dump_raises_on_failure(fail) == fail # "none"

\* Each failure is caught and logged inside dump_to_files.
dump_raises(fail) == FALSE

\* The store the calls start from, and the files of its last snapshot.
SnapshotStores ==
    {[EmptyStore EXCEPT !["assets"] =
         [exists |-> TRUE, items |-> <<[key |-> "d1", doc |-> Doc("d1", "A", "x")]>>]],
     [EmptyStore EXCEPT
         !["assets"] =
             [exists |-> TRUE, items |-> <<[key |-> "d1", doc |-> Doc("d1", "A", "x")]>>],
         !["users"] =
             [exists |-> TRUE, items |-> <<[key |-> "d2", doc |-> Doc("d2", "B", "x")]>>]]}

\* The file dump_to_files writes for a collection.
FileOf(coll) ==
    [exists |-> TRUE, parsable |-> TRUE,
     docs |-> [i \in 1..Len(coll.items) |-> json_dump(coll.items[i].doc)]]

FilesOf(st) == [c \in CollNames |-> IF st[c].exists THEN FileOf(st[c]) ELSE NoFile]

\* list(v.values()): the documents of a collection, by reference.
Listed(coll) == [i \in 1..Len(coll.items) |-> coll.items[i].key]

\* The document a reference leads to (no document is replaced or deleted
\* by these calls).
Referred(coll, key) ==
    coll.items[CHOOSE i \in 1..Len(coll.items) : coll.items[i].key = key].doc

\* The file written from a list of references.
FileOfListed(coll, listed) ==
    [exists |-> TRUE, parsable |-> TRUE,
     docs |-> [i \in 1..Len(listed) |-> json_dump(Referred(coll, listed[i]))]]

SnapshotInit ==
    /\ PlanIdle
    /\ UsageIdle
    /\ db0 \in SnapshotStores
    /\ collections = db0
    /\ lock = Unlocked
    /\ threads \in [Threads ->
                       {[pc |-> "start", op |-> o, patch |-> v, fail |-> f,
                         copy |-> [c \in CollNames |-> <<>>], todo |-> {},
                         ret |-> NoRet, outcome |-> "pending"] :
                           o \in {"insert_one", "update_one"}, v \in {"x", "y"},
                           f \in DumpFailures}]
    /\ files = FilesOf(db0)
    /\ snapshot = EmptyStore
    /\ persist_pc = "serving"

\* What the call ends with once dump_to_files is over.
AfterDump(fail) == IF dump_raises(fail) THEN "raised" ELSE "returned"

\* db.insert_one("assets", new) of add_asset_metadata, or
\* db.update_one("assets", {"id": asset_id}, patch) of update_asset_field.
WriteAsset(t) ==
    /\ threads[t].pc = "start"
    /\ LET r == IF threads[t].op = "insert_one"
                THEN insert_one(collections, "assets",
                                Doc(NoId, "A", threads[t].patch), Uuid(t))
                ELSE update_one(collections, "assets", Filter({"id"}, "d1", ""),
                                threads[t].patch, NoOwner)
       IN  /\ collections' = r.store
           /\ threads' = [threads EXCEPT ![t].pc = "written", ![t].ret = r.ret]
    /\ UNCHANGED <<outside_store, lock, db0, persist_vars>>

\* dump_to_files: os.makedirs, then the copy of the collections under the lock.
CopyCollections(t) ==
    /\ threads[t].pc = "written"
    /\ threads' = IF threads[t].fail = "makedirs"
                  THEN [threads EXCEPT ![t].pc = "done",
                                       ![t].outcome = AfterDump(threads[t].fail)]
                  ELSE [threads EXCEPT ![t].pc = "copied",
                                       ![t].copy = [c \in CollNames |-> Listed(collections[c])],
                                       ![t].todo = {c \in CollNames : collections[c].exists}]
    /\ UNCHANGED <<outside_store, collections, lock, db0, persist_vars>>

\* dump_to_files: one pass of the loop that writes the files.  open(path, "w")
\* that fails leaves the file as it was; json.dump that fails leaves a file
\* cut short.
WriteFile(t, c) ==
    /\ threads[t].pc = "copied"
    /\ c \in threads[t].todo
    /\ files' = [files EXCEPT ![c] =
                    IF threads[t].fail = "open" THEN @
                    ELSE IF threads[t].fail = "serialize"
                    THEN [exists |-> TRUE, parsable |-> FALSE, docs |-> <<>>]
                    ELSE FileOfListed(collections[c], threads[t].copy[c])]
    /\ threads' = IF threads[t].todo = {c}
                  THEN [threads EXCEPT ![t].pc = "done", ![t].todo = {},
                                       ![t].outcome = AfterDump(threads[t].fail)]
                  ELSE [threads EXCEPT ![t].todo = @ \ {c}]
    /\ UNCHANGED <<outside_store, collections, lock, db0, snapshot, persist_pc>>

SnapshotNext ==
    \E t \in Threads :
        \/ WriteAsset(t)
        \/ CopyCollections(t)
        \/ \E c \in CollNames : WriteFile(t, c)

SnapshotSpec == SnapshotInit /\ [][SnapshotNext]_vars

\* The asset the update_one calls change, as it is in memory.
StoredAsset == collections["assets"].items[1].doc

\* The store write of thread t is in memory.
StaysApplied(t) ==
    IF threads[t].op = "insert_one"
    THEN /\ HasKey(collections["assets"].items, Uuid(t))
         /\ Referred(collections["assets"], Uuid(t)).v = threads[t].patch
    ELSE StoredAsset.v \in {threads[u].patch :
                               u \in {w \in Threads : /\ threads[w].pc # "start"
                                                      /\ threads[w].op = "update_one"}}

\* C26: a failure inside dump_to_files does not reach the caller and does not
\* touch the store: no step of dump_to_files changes the collections, and a
\* call that met a failure still returns the written document, whose write
\* stays in memory.
C26_SnapshotFailureSwallowed ==
    /\ [][\A t \in Threads :
            (threads[t].pc \in {"written", "copied"} /\ threads'[t] # threads[t])
                => collections' = collections]_vars
    /\ [](\A t \in Threads :
            threads[t].pc = "done" =>
                /\ threads[t].outcome = "returned"
                /\ threads[t].ret.kind = "docs"
                /\ threads[t].ret.docs[1].v = threads[t].patch
                /\ StaysApplied(t))

\* Both calls are over, each after a failure of its own dump, one leaving a
\* file cut short, and the store holds the update and the new document.
C26_Witness ==
    /\ \A t \in Threads : threads[t].pc = "done" /\ threads[t].outcome = "returned"
    /\ \E t \in Threads : threads[t].fail = "serialize" /\ threads[t].op = "update_one"
    /\ \E t \in Threads : threads[t].fail = "makedirs" /\ threads[t].op = "insert_one"
    /\ ~files["assets"].parsable
    /\ StoredAsset.v = "y"
    /\ Len(collections["assets"].items) = 2

\* C30: once every call has returned, none having met a write failure, the
\* file of each collection holds the documents the collection holds in
\* memory.
C30_SnapshotIsFresh ==
    (\A t \in Threads : threads[t].pc = "done" /\ threads[t].fail = "none") =>
        \A c \in CollNames : collections[c].exists => files[c] = FileOf(collections[c])

(***************************************************************************)
(* assets/services.py and the asset routes of assets/routes.py, called by  *)
(* one owner while the store also holds documents of another.  Each call   *)
(* is one step (the store calls run under the store lock and the handlers  *)
(* are called one after another), ending with dump_to_files.               *)
(***************************************************************************)
\* The owner whose requests are served, and the ids a payload can name.
Caller == "A"
AssetIds == DocIds \cup {"d3"}

\* The assets the store holds when the requests start.
AssetStores ==
    {[EmptyStore EXCEPT !["assets"] = [exists |-> TRUE, items |-> items]] :
        items \in {<<[key |-> "d2", doc |-> Doc("d2", "B", "x")]>>,
                   <<[key |-> "d1", doc |-> Doc("d1", "A", "x")],
                     [key |-> "d2", doc |-> Doc("d2", "B", "x")]>>,
                   <<[key |-> "d2", doc |-> Doc("d2", "B", "y")],
                     [key |-> "d3", doc |-> Doc("d3", "B", "x")]>>}}

AssetInit ==
    /\ PlanIdle
    /\ UsageIdle
    /\ db0 \in AssetStores
    /\ collections = db0
    /\ lock = Unlocked
    /\ threads = <<>>
    /\ files = FilesOf(db0)
    /\ snapshot = EmptyStore
    /\ persist_pc = "serving"

\* add_asset_metadata: nothing is done when the owner has a document of
\* that id; otherwise the new document goes to insert_one.
add_asset_metadata(st, aid, v, owner_id) ==
    LET existing == find_one(st, "assets", Filter({"id"}, aid, ""), owner_id)
    IN  IF existing.kind = "docs"
        THEN [store |-> st, ret |-> existing]
        ELSE insert_one(st, "assets", Doc(aid, owner_id, v), aid)

\* POST /assets with payload id aid.
CreateAsset(aid, v) ==
    /\ persist_pc = "serving"
    /\ LET r == add_asset_metadata(collections, aid, v, Caller)
       IN  /\ collections' = r.store
           /\ files' = IF r.store = collections THEN files ELSE FilesOf(r.store)
    /\ UNCHANGED <<outside_store, lock, threads, db0, snapshot, persist_pc>>

\* update_asset_field for the caller (toggle-like, increment-download).
UpdateAssetField(aid, v) ==
    /\ persist_pc = "serving"
    /\ LET r == update_one(collections, "assets", Filter({"id"}, aid, ""), v, Caller)
       IN  /\ r.ret.kind = "docs"
           /\ collections' = r.store
           /\ files' = FilesOf(r.store)
    /\ UNCHANGED <<outside_store, lock, threads, db0, snapshot, persist_pc>>

\* remove_asset_metadata_only for the caller (toggle-like of a liked asset).
RemoveAssetMetadataOnly(aid) ==
    /\ persist_pc = "serving"
    /\ LET r == delete_one(collections, "assets", Filter({"id"}, aid, ""), Caller)
       IN  /\ r.ret.kind = "docs"
           /\ collections' = r.store
           /\ files' = FilesOf(r.store)
    /\ UNCHANGED <<outside_store, lock, threads, db0, snapshot, persist_pc>>

AssetNext ==
    \E aid \in AssetIds :
        \/ \E v \in {"x", "y"} : CreateAsset(aid, v)
        \/ \E v \in {"x", "y"} : UpdateAssetField(aid, v)
        \/ RemoveAssetMetadataOnly(aid)

AssetSpec == AssetInit /\ [][AssetNext]_vars

\* The entries of the assets collection that belong to an owner.
OwnedBy(st, owner_id) ==
    {st["assets"].items[i] :
        i \in {j \in 1..Len(st["assets"].items) : st["assets"].items[j].doc.owner_id = owner_id}}

\* C28: whatever the caller's requests, with whatever ids, the documents of
\* the other owner are the ones the store held when the requests started.
C28_AssetsNeverCrossOwners == OwnedBy(collections, "B") = OwnedBy(db0, "B")

(***************************************************************************)
(* common/routes.py: the guest-quota check of generate_unified, for        *)
(* concurrent requests of one user.  The handler is a plain function, so   *)
(* each request runs on a thread of its own.  get_current_user reads the   *)
(* user document (db.find gives a copy); the handler checks guest_quota on *)
(* that copy and writes quota - 1 with update_user_fields.  Here usage_doc *)
(* is the stored user document, usage0 the document before the requests.   *)
(***************************************************************************)
GuestQuotas == {0, 1, 2}

GuestFields(is_guest, guest_quota) == [is_guest |-> is_guest, guest_quota |-> guest_quota]

GuestInit ==
    /\ PlanIdle
    /\ StoreIdle
    /\ usage0 \in {GuestFields(g, q) : g \in BOOLEAN, q \in GuestQuotas}
    /\ usage_doc = usage0
    /\ usage_thr = [t \in Callers |-> [pc |-> "start", user |-> GuestFields(FALSE, 0),
                                       outcome |-> "pending"]]

\* user = Depends(get_current_user): get_user_by_id gives a copy of the document.
GetCurrentUser(t) ==
    /\ usage_thr[t].pc = "start"
    /\ usage_thr' = [usage_thr EXCEPT ![t].pc = "authenticated", ![t].user = usage_doc]
    /\ UNCHANGED <<outside_usage, usage_doc, usage0>>

\* The handler's check: a guest without quota left gets 403; a guest with
\* quota left has guest_quota set to the quota of the copy minus one.
GuestQuotaCheck(t) ==
    LET user == usage_thr[t].user IN
    /\ usage_thr[t].pc = "authenticated"
    /\ IF user.is_guest /\ user.guest_quota <= 0
       THEN /\ usage_thr' = [usage_thr EXCEPT ![t].pc = "done", ![t].outcome = "403"]
            /\ usage_doc' = usage_doc
       ELSE /\ usage_thr' = [usage_thr EXCEPT ![t].pc = "done", ![t].outcome = "passed"]
            /\ usage_doc' = IF user.is_guest
                            THEN [usage_doc EXCEPT !.guest_quota = user.guest_quota - 1]
                            ELSE usage_doc
    /\ UNCHANGED <<outside_usage, usage0>>

GuestNext == \E t \in Callers : GetCurrentUser(t) \/ GuestQuotaCheck(t)

GuestSpec == GuestInit /\ [][GuestNext]_vars

\* The requests that got past the guest-quota check.
Passed == {t \in Callers : usage_thr[t].outcome = "passed"}

\* C31: the requests of a guest that get past the guest-quota check are at
\* most as many as the guest_quota the user started with.
C31_GuestQuotaEnforced ==
    usage0.is_guest => Cardinality(Passed) <= usage0.guest_quota

(***************************************************************************)
(* common/routes.py, plan execution: plans at and beyond the scene limit.  *)
(* validate_plan lets a group or chain list a scene any number of times,   *)
(* so the family holds plans whose orchestration is longer than the plan.  *)
(***************************************************************************)
\* A text_to_video scene without dependencies or image prompts.
PlainScene(id) ==
    [id |-> id, mode |-> TEXT_TO_VIDEO, dependencies |-> {},
     pre_generate_images |-> FALSE, image_prompts |-> 0]

\* Scene 1 listed n times.
Repeated(n) == [i \in 1..n |-> 1]

\* The lengths around the limit.
LimitLengths == {PLAN_MAX_SCENES - 1, PLAN_MAX_SCENES, PLAN_MAX_SCENES + 1}

LimitPlans ==
    {[scenes |-> <<PlainScene(1)>>,
      orchestration |-> [parallel_groups |-> <<>>, sequential_chains |-> <<Repeated(n)>>]] :
        n \in LimitLengths}
    \cup {[scenes |-> [i \in 1..n |-> PlainScene(i)],
           orchestration |-> [parallel_groups |-> <<>>, sequential_chains |-> <<>>]] :
            n \in {PLAN_MAX_SCENES + 1}}
    \cup {p \in Plans : /\ Len(p.scenes) <= 2
                        /\ Len(p.orchestration.parallel_groups)
                              + Len(p.orchestration.sequential_chains) <= 1}

LimitInit ==
    /\ plan \in LimitPlans
    /\ pc = "request"
    /\ pre_idx = 0
    /\ img_idx = 0
    /\ img_busy = FALSE
    /\ generated_images = 0
    /\ scene_images = [id \in SceneIds |-> 0]
    /\ unit_idx = 0
    /\ futures = <<>>
    /\ seq_scenes = <<>>
    /\ seq_pos = 0
    /\ seq_running = FALSE
    /\ previous_video_uri = None
    /\ results = <<>>
    /\ all_results = <<>>
    /\ calls = <<>>
    /\ image_calls = 0
    /\ image_errors = 0
    /\ returned = <<>>
    /\ request = MemberRequest
    /\ detail = NoError
    /\ mutations = <<>>
    /\ StoreIdle
    /\ UsageIdle

LimitSpec == LimitInit /\ [][Next]_vars

\* C33: a request makes at most PLAN_MAX_SCENES invocations of
\* execute_single_scene, and a plan with more scenes than PLAN_MAX_SCENES
\* is rejected without any.
C33_SceneLimitBoundsWork ==
    /\ Len(calls) <= PLAN_MAX_SCENES
    /\ Len(plan.scenes) > PLAN_MAX_SCENES =>
          (calls = <<>> /\ image_calls = 0 /\ pc \in {"request", "rejected"})

(***************************************************************************)
(* database/db.py: the store calls one after another, with any documents,  *)
(* filters and patches, a patch that sets the id field among them (the     *)
(* payload of PUT /api/personas/{persona_id} goes to update_one as it is). *)
(***************************************************************************)
KeyDocs == {Doc("d1", "A", "x"), Doc("d2", "B", "x"), Doc(NoId, "A", "x")}
KeyFilters == {Filter({"id"}, "d1", ""), Filter({"id"}, "d2", ""), Filter({"v"}, NoId, "x")}
KeyPatches == {"y"} \cup IdPatches

KeyInit ==
    /\ PlanIdle
    /\ UsageIdle
    /\ db0 \in InitialStores
    /\ collections = db0
    /\ lock = Unlocked
    /\ threads = <<>>
    /\ files \in {FilesOf(st) : st \in InitialStores}
    /\ snapshot = EmptyStore
    /\ persist_pc = "serving"

KeyInsertOne(document) ==
    /\ document.id = NoId => ~HasKey(collections["assets"].items, "uuid1")
    /\ collections' = insert_one(ensure_collection(collections, "assets"), "assets",
                                 document, "uuid1").store
    /\ UNCHANGED <<outside_store, lock, threads, db0, persist_vars>>

KeyUpdateOne(filter, patch, owner_id) ==
    /\ LET r == update_one(ensure_collection(collections, "assets"), "assets",
                           filter, patch, owner_id)
       IN  /\ r.ret.kind = "docs"
           /\ collections' = r.store
    /\ UNCHANGED <<outside_store, lock, threads, db0, persist_vars>>

KeyDeleteOne(filter, owner_id) ==
    /\ LET r == delete_one(ensure_collection(collections, "assets"), "assets",
                           filter, owner_id)
       IN  /\ r.ret.kind = "docs"
           /\ collections' = r.store
    /\ UNCHANGED <<outside_store, lock, threads, db0, persist_vars>>

KeyLoadFromFiles ==
    /\ collections' = LoadFiles(collections, CollNames)
    /\ collections' # collections
    /\ UNCHANGED <<outside_store, lock, threads, db0, persist_vars>>

KeyNext ==
    \/ \E document \in KeyDocs : KeyInsertOne(document)
    \/ \E filter \in KeyFilters, patch \in KeyPatches, owner_id \in Owners \cup {NoOwner} :
          KeyUpdateOne(filter, patch, owner_id)
    \/ \E filter \in KeyFilters, owner_id \in Owners \cup {NoOwner} :
          KeyDeleteOne(filter, owner_id)
    \/ KeyLoadFromFiles

KeySpec == KeyInit /\ [][KeyNext]_vars

\* C34: every document is held under the key that is its id, and a lookup
\* by id matches at most one document of a collection.
C34_KeyIsId ==
    \A c \in CollNames :
        /\ \A i \in 1..Len(collections[c].items) :
              collections[c].items[i].key = collections[c].items[i].doc.id
        /\ \A id \in DocIds \cup Uuids :
              Len(find(collections, c, Filter({"id"}, id, ""), NoOwner).docs) <= 1

(***************************************************************************)
(* common/plan_orchestrator.py: one invocation of execute_single_scene,    *)
(* for any scene, token, images and any response of generate_video, a      *)
(* GenerationServiceResponse with usage_metadata set among them.  The      *)
(* response the call is going to get is kept with the invocation, in       *)
(* futures.                                                                *)
(***************************************************************************)
AnyResponses ==
    [raised : BOOLEAN, video_uri : BOOLEAN, usage_metadata : BOOLEAN]

SceneInputs ==
    {[scene |-> [id |-> i, mode |-> m, dependencies |-> {},
                 pre_generate_images |-> FALSE, image_prompts |-> 0],
      token |-> t, images |-> g] :
        i \in SceneIds, m \in Modes, t \in {None} \cup SceneIds, g \in {0, 2}}

SceneInit ==
    /\ plan = [scenes |-> <<>>,
               orchestration |-> [parallel_groups |-> <<>>, sequential_chains |-> <<>>]]
    /\ pc = "scene"
    /\ pre_idx = 0
    /\ img_idx = 0
    /\ img_busy = FALSE
    /\ generated_images = 0
    /\ scene_images = [id \in SceneIds |-> 0]
    /\ unit_idx = 0
    /\ \E in \in SceneInputs, resp \in AnyResponses :
          /\ futures = <<[scene |-> in.scene, status |-> "running", call |-> 1,
                          response |-> IF CallsBackend(in.scene, in.token)
                                       THEN resp ELSE NotCalled]>>
          /\ calls = <<Call(in.scene, in.token, in.images, "scene", 0)>>
    /\ seq_scenes = <<>>
    /\ seq_pos = 0
    /\ seq_running = FALSE
    /\ previous_video_uri = None
    /\ results = <<>>
    /\ all_results = <<>>
    /\ image_calls = 0
    /\ image_errors = 0
    /\ returned = <<>>
    /\ request = MemberRequest
    /\ detail = NoError
    /\ mutations = <<>>
    /\ StoreIdle
    /\ UsageIdle

\* execute_single_scene from the call of generate_video to its return.
SceneReturn ==
    /\ pc = "scene"
    /\ LET resp == futures[1].response
           out == execute_single_scene(futures[1].scene, calls[1].token,
                                       calls[1].images, resp, 1)
       IN  /\ calls' = <<Finished(calls[1], resp, out)>>
           /\ futures' = <<[futures[1] EXCEPT !.status = "done"]>>
           /\ results' = <<out.result>>
    /\ pc' = "scene_done"
    /\ UNCHANGED outside_plan
    /\ UNCHANGED <<plan, request, detail, mutations, pre_idx, img_idx, img_busy,
                   generated_images, scene_images, unit_idx, seq_scenes, seq_pos,
                   seq_running, previous_video_uri, all_results, image_calls,
                   image_errors, returned>>

SceneSpec == SceneInit /\ [][SceneReturn]_vars

StoreMethods ==
    {"insert_one", "find", "find_one", "update_one", "delete_one",
     "dump_to_files", "load_from_files"}

\* with self._lock: ..., entered and left.
WithLock == <<"acquire", "release">>

\* An insert_one that calls _ensure_collection inside its with block.
LockStepsNested(method) ==
    IF method = "insert_one" THEN <<"acquire">> \o WithLock \o <<"release">>
    ELSE IF method = "dump_to_files" THEN WithLock \o <<"write">>
    ELSE IF method = "load_from_files" THEN WithLock \o WithLock \o WithLock \o WithLock
    ELSE WithLock \o WithLock

\* What a call of the method does with the lock, in order.
LockSteps(method) ==
    IF method = "dump_to_files" THEN WithLock \o <<"write">>
    ELSE IF method = "load_from_files" THEN WithLock \o WithLock \o WithLock \o WithLock
    ELSE WithLock \o WithLock

LockInit ==
    /\ PlanIdle
    /\ UsageIdle
    /\ db0 = EmptyStore
    /\ collections = EmptyStore
    /\ lock = Unlocked
    /\ threads \in [Threads -> {[method |-> m, todo |-> LockSteps(m)] : m \in StoreMethods}]
    /\ files = NoFiles
    /\ snapshot = EmptyStore
    /\ persist_pc = "idle"

\* self._lock.__enter__: blocks until no thread holds the lock, the caller
\* included.
Acquire(t) ==
    /\ threads[t].todo # <<>>
    /\ Head(threads[t].todo) = "acquire"
    /\ LockAvailable(lock)
    /\ lock' = t
    /\ threads' = [threads EXCEPT ![t].todo = Tail(@)]
    /\ UNCHANGED <<outside_store, collections, db0, persist_vars>>

\* self._lock.__exit__
Release(t) ==
    /\ threads[t].todo # <<>>
    /\ Head(threads[t].todo) = "release"
    /\ lock' = Unlocked
    /\ threads' = [threads EXCEPT ![t].todo = Tail(@)]
    /\ UNCHANGED <<outside_store, collections, db0, persist_vars>>

\* The loop of dump_to_files that writes the files.
WriteUnlocked(t) ==
    /\ threads[t].todo # <<>>
    /\ Head(threads[t].todo) = "write"
    /\ threads' = [threads EXCEPT ![t].todo = Tail(@)]
    /\ UNCHANGED <<outside_store, collections, lock, db0, persist_vars>>

LockStep(t) == Acquire(t) \/ Release(t) \/ WriteUnlocked(t)

LockNext == \E t \in Threads : LockStep(t)

LockSpec == LockInit /\ [][LockNext]_vars

\* Threads run whenever they can: a thread that is not waiting for the lock
\* goes on, and a thread waiting for a lock that keeps being released gets it.
FairLockSpec == LockSpec /\ \A t \in Threads : SF_vars(LockStep(t))

\* C37: no thread asks for the lock while it holds it, and every call of a
\* store method returns.
C37_StoreCallsReturn ==
    /\ [](\A t \in Threads :
            (threads[t].todo # <<>> /\ Head(threads[t].todo) = "acquire") => lock # t)
    /\ \A t \in Threads : <>(threads[t].todo = <<>>)

\* Both calls have returned, one of them load_from_files, which took the
\* lock four times, the other update_one, and the lock is free.
C37_Witness ==
    /\ \A t \in Threads : threads[t].todo = <<>>
    /\ \E t, u \in Threads :
          threads[t].method = "load_from_files" /\ threads[u].method = "update_one"
    /\ lock = Unlocked

(***************************************************************************)
(* common/personas.py and the persona routes of image/routes.py, called by *)
(* concurrent requests of one owner.  A persona is a document of the       *)
(* "personas" collection; its field v is its is_active ("True" / "False"). *)
(* Each store call is one step (it runs under the store lock); a request   *)
(* is several store calls with nothing held in between.                    *)
(***************************************************************************)
Persona(id, owner_id, is_active) ==
    Doc(id, owner_id, IF is_active THEN "True" ELSE "False")

PersonaStoreOf(items) ==
    [c \in {"personas"} |->
        [exists |-> TRUE,
         items |-> [i \in 1..Len(items) |-> [key |-> items[i].id, doc |-> items[i]]]]]

\* The owner has one or two personas, at most one of them active; another
\* owner may have an active one.
PersonaStores ==
    {PersonaStoreOf(ps \o other) :
        ps \in {<<Persona("d1", Caller, a)>> : a \in BOOLEAN}
                  \cup {<<Persona("d1", Caller, a), Persona("d2", Caller, b)>> :
                           a \in BOOLEAN, b \in {FALSE}}
                  \cup {<<Persona("d1", Caller, FALSE), Persona("d2", Caller, TRUE)>>},
        other \in {<<>>, <<Persona("b1", "B", TRUE)>>}}

PersonaRequests ==
    {[op |-> o, pid |-> p] : o \in {"activate", "delete"}, p \in AssetIds}

PersonaInit ==
    /\ PlanIdle
    /\ UsageIdle
    /\ db0 \in PersonaStores
    /\ collections = db0
    /\ lock = Unlocked
    /\ threads \in [Threads -> {[call |-> r, pc |-> "start", ps |-> <<>>,
                                 outcome |-> "pending"] : r \in PersonaRequests}]
    /\ files = NoFiles
    /\ snapshot = EmptyStore
    /\ persist_pc = "idle"

\* ps = db.find("personas", owner_id=owner_id), of activate_persona and of
\* list_personas; api_delete_persona refuses when it lists one persona or none.
ListPersonas(t) ==
    LET ps == find(collections, "personas", EmptyFilter, Caller).docs IN
    /\ threads[t].pc = "start"
    /\ threads' = IF threads[t].call.op = "delete" /\ Len(ps) <= 1
                  THEN [threads EXCEPT ![t].pc = "done", ![t].outcome = "400"]
                  ELSE [threads EXCEPT ![t].pc = "listed", ![t].ps = ps]
    /\ UNCHANGED <<outside_store, collections, lock, db0, persist_vars>>

\* The listed personas the loop of activate_persona has still to visit and
\* found active.
ToDeactivate(ps) == SelectSeq(ps, LAMBDA p : p.v = "True")

\* One pass of the loop: update_one(..., {"is_active": False}), KeyError passed over.
Deactivate(t) ==
    /\ threads[t].pc = "listed"
    /\ threads[t].call.op = "activate"
    /\ ToDeactivate(threads[t].ps) # <<>>
    /\ collections' = update_one(collections, "personas",
                                 Filter({"id"}, Head(ToDeactivate(threads[t].ps)).id, ""),
                                 "False", Caller).store
    /\ threads' = [threads EXCEPT ![t].ps = Tail(ToDeactivate(threads[t].ps))]
    /\ UNCHANGED <<outside_store, lock, db0, persist_vars>>

\* update_one(..., {"id": pid}, {"is_active": True, ...}) after the loop.
Activate(t) ==
    /\ threads[t].pc = "listed"
    /\ threads[t].call.op = "activate"
    /\ ToDeactivate(threads[t].ps) = <<>>
    /\ LET r == update_one(collections, "personas",
                           Filter({"id"}, threads[t].call.pid, ""), "True", Caller)
       IN  /\ collections' = r.store
           /\ threads' = [threads EXCEPT ![t].pc = "done",
                                         ![t].outcome = IF r.ret.kind = "docs"
                                                        THEN "ok" ELSE "404"]
    /\ UNCHANGED <<outside_store, lock, db0, persist_vars>>

\* delete_persona, after the check of api_delete_persona.
DeletePersona(t) ==
    /\ threads[t].pc = "listed"
    /\ threads[t].call.op = "delete"
    /\ LET r == delete_one(collections, "personas",
                           Filter({"id"}, threads[t].call.pid, ""), Caller)
       IN  /\ collections' = r.store
           /\ threads' = [threads EXCEPT ![t].pc = "done",
                                         ![t].outcome = IF r.ret.kind = "docs"
                                                        THEN "ok" ELSE "404"]
    /\ UNCHANGED <<outside_store, lock, db0, persist_vars>>

PersonaNext ==
    \E t \in Threads :
        \/ ListPersonas(t)
        \/ Deactivate(t)
        \/ Activate(t)
        \/ DeletePersona(t)

PersonaSpec == PersonaInit /\ [][PersonaNext]_vars

\* The caller's personas, and those of them that are active.
PersonasOf(st) == find(st, "personas", EmptyFilter, Caller).docs
ActiveOf(st) == find(st, "personas", Filter({"v"}, NoId, "True"), Caller).docs

\* C38: once the activate_persona calls of the owner have returned, at most
\* one persona of the owner is active; after one successful call that ran
\* alone, the active persona is the one it named.
C38_OneActivePersona ==
    /\ (\A t \in Threads : threads[t].call.op = "activate" /\ threads[t].pc = "done")
          => Len(ActiveOf(collections)) <= 1
    /\ \A t \in Threads :
          (/\ threads[t].call.op = "activate"
           /\ threads[t].outcome = "ok"
           /\ \A u \in Threads \ {t} : threads[u].pc = "start")
              => (Len(ActiveOf(collections)) = 1
                    /\ ActiveOf(collections)[1].id = threads[t].call.pid)

\* C39: an activate_persona that ran alone and raised KeyError has left the
\* store as it was.
C39_FailedActivationChangesNothing ==
    \A t \in Threads :
        (/\ threads[t].call.op = "activate"
         /\ threads[t].outcome = "404"
         /\ \A u \in Threads \ {t} : threads[u].pc = "start")
            => collections = db0

\* C40: the owner, who had a persona to begin with, still has one, whatever
\* delete requests were served.
C40_OnePersonaRemains ==
    (\A t \in Threads : threads[t].call.op = "delete")
        => Len(PersonasOf(collections)) >= 1

====
